---- MODULE Spec2Model ----
(***************************************************************************)
(* Ledger classification, owner/period metrics, monthly KPI rollup and the *)
(* bank reconciliation matcher of jcw_financials (src/src/*.py), as a      *)
(* state machine whose actions apply the functions to bounded inputs.      *)
(*                                                                         *)
(* Amounts are binary floating-point numbers with a MantBits-bit           *)
(* significand (round to nearest, ties to even), scaled so that every      *)
(* value of the model is an integer.  Texts are sequences of               *)
(* one-character strings.  The value None / NaN of a text-valued cell is   *)
(* the text the code turns it into (astype(str)): "nan".                   *)
(***************************************************************************)
EXTENDS Integers, Sequences, FiniteSets, TLC

VARIABLES
    pc,                 \* position of the run: which function has been applied
    ledger,             \* the normalized transaction table handed to the core
    cogs_prefixes,      \* classify_transactions' cogs_prefixes argument
    df,                 \* the classified (and flagged) table
    params,             \* arguments of the metrics call
    owner,              \* dict returned by get_owner_metrics
    period,             \* dict returned by get_period_metrics
    monthly,            \* rows returned by compute_monthly_kpis
    qb,                 \* match_qb_and_bank: ledger side
    bank,               \* match_qb_and_bank: bank side
    date_tolerance_days,
    qb_pos,             \* position of the qb.iterrows() loop
    matched_rows,       \* list of recorded pairs
    used_bank_indices,  \* set of consumed bank row labels
    match_result,       \* the MatchResult returned
    adjusted,           \* dict returned by apply_legacy_overhead_addins
    run_rates,          \* dict returned by calculate_run_rates
    forecast,           \* (year_1_forecast, months_remaining) of forecast_year_1
    rule_objs,          \* the JSON objects of the addback rules file
    rules,              \* list of AddbackRule parsed from them
    rule_out,           \* frame returned by apply_rules_to_df
    legacy_addins_total        \* float returned by compute_legacy_overhead_addins

vars == <<pc, ledger, cogs_prefixes, df, params, owner, period, monthly,
          qb, bank, date_tolerance_days, qb_pos, matched_rows,
          used_bank_indices, match_result,
          adjusted, run_rates, forecast, rule_objs, rules, rule_out,
          legacy_addins_total>>

None == [none |-> TRUE]

---------------------------------------------------------------------------
(* Bounds *)

MantBits == 3           \* significand width of the modelled floats
MaxClassifyRows == 1    \* rows of a ledger handed to classify_transactions
MaxRows == 3            \* rows of a frame handed to the three metrics functions
MaxOwnerRows == 2       \* rows of a frame of the owner-metrics runs
MaxQbRows == 2          \* ledger rows handed to match_qb_and_bank
MaxBankRows == 2        \* bank rows handed to match_qb_and_bank
DaysPerMonth == 2       \* length of a month of the model's calendar
FracBits == 2           \* fraction bits of a month count (unit 2^-FracBits month)
MaxSnapshotRows == 2    \* rows of the frames behind the snapshots of a forecast run

---------------------------------------------------------------------------
(* Floating-point arithmetic *)

Abs(x) == IF x < 0 THEN -x ELSE x

\* x rounded to the nearest number with a MantBits-bit significand, ties to even.
Fl(x) ==
    LET a == Abs(x) IN
    IF a < 2^MantBits THEN x
    ELSE LET e == CHOOSE k \in 1..24 :
                     /\ a \div 2^k < 2^MantBits
                     /\ a \div 2^(k-1) >= 2^MantBits
             q == a \div 2^e
             r == a % 2^e
             half == 2^(e-1)
             m == IF r > half \/ (r = half /\ q % 2 = 1) THEN q + 1 ELSE q
         IN  IF x < 0 THEN -(m * 2^e) ELSE m * 2^e

FAdd(a, b) == Fl(a + b)
FSub(a, b) == Fl(a - b)

RECURSIVE FSumFrom(_, _, _)
FSumFrom(s, i, acc) ==
    IF i > Len(s) THEN acc ELSE FSumFrom(s, i + 1, FAdd(acc, s[i]))

\* Series.sum(): the amounts added left to right, starting from 0.
FSum(s) == FSumFrom(s, 1, 0)

\* the integer nearest to n / d (d > 0), ties to even
RoundRat(n, d) ==
    LET a == Abs(n)
        q == a \div d
        r == a % d
        m == IF 2 * r > d \/ (2 * r = d /\ q % 2 = 1) THEN q + 1 ELSE q
    IN  IF n < 0 THEN -m ELSE m

\* n / d rounded to the nearest number with a MantBits-bit significand
FlRat(n, d) ==
    LET a == Abs(n) IN
    IF a \div d < 2^MantBits THEN RoundRat(n, d)
    ELSE LET e == CHOOSE k \in 1..40 :
                     /\ a \div (d * 2^k) < 2^MantBits
                     /\ a \div (d * 2^(k-1)) >= 2^MantBits
         IN  RoundRat(n, d * 2^e) * 2^e

Max(a, b) == IF a >= b THEN a ELSE b

net_to_positive(total) == IF total < 0 THEN -total ELSE total

---------------------------------------------------------------------------
(* Texts *)

UpperCase == <<"A","B","C","D","E","F","G","H","I","J","K","L","M",
               "N","O","P","Q","R","S","T","U","V","W","X","Y","Z">>
LowerCase == <<"a","b","c","d","e","f","g","h","i","j","k","l","m",
               "n","o","p","q","r","s","t","u","v","w","x","y","z">>
Digits == {"0","1","2","3","4","5","6","7","8","9"}
Space == {" "}

LowerChar(c) ==
    IF \E i \in 1..26 : UpperCase[i] = c
    THEN LowerCase[CHOOSE i \in 1..26 : UpperCase[i] = c]
    ELSE c

\* str.lower()
Lower(s) == [i \in 1..Len(s) |-> LowerChar(s[i])]

\* pat occurs in s at position i
OccursAt(s, pat, i) ==
    /\ i + Len(pat) - 1 <= Len(s)
    /\ \A j \in 1..Len(pat) : s[i + j - 1] = pat[j]

\* str.contains(pat) for a pattern without metacharacters
Contains(s, pat) == \E i \in 1..(Len(s) + 1) : OccursAt(s, pat, i)

\* number of leading whitespace characters
LeadingSpaces(s) ==
    IF \A i \in 1..Len(s) : s[i] \in Space THEN Len(s)
    ELSE (CHOOSE i \in 1..Len(s) :
              s[i] \notin Space /\ \A j \in 1..(i-1) : s[j] \in Space) - 1

TrailingSpaces(s) ==
    IF \A i \in 1..Len(s) : s[i] \in Space THEN Len(s)
    ELSE Len(s) - (CHOOSE i \in 1..Len(s) :
              s[i] \notin Space /\ \A j \in (i+1)..Len(s) : s[j] \in Space)

\* str.strip()
Strip(s) ==
    IF LeadingSpaces(s) = Len(s) THEN <<>>
    ELSE SubSeq(s, LeadingSpaces(s) + 1, Len(s) - TrailingSpaces(s))

\* number of digits at the start of s
LeadingDigits(s) ==
    IF \A i \in 1..Len(s) : s[i] \in Digits THEN Len(s)
    ELSE (CHOOSE i \in 1..Len(s) :
              s[i] \notin Digits /\ \A j \in 1..(i-1) : s[j] \in Digits) - 1

T_income == <<"i","n","c","o","m","e">>
T_other_expense == <<"o","t","h","e","r"," ","e","x","p","e","n","s","e">>
T_other_income == <<"o","t","h","e","r"," ","i","n","c","o","m","e">>
T_expense == <<"e","x","p","e","n","s","e">>
T_cost_of_goods_sold ==
    <<"c","o","s","t"," ","o","f"," ","g","o","o","d","s"," ","s","o","l","d">>
T_cogs == <<"c","o","g","s">>
T_nan == <<"n","a","n">>

---------------------------------------------------------------------------
(* Account prefixes *)

\* The value None of a prefix: no prefix is the empty text.
NoPrefix == <<>>

\* re.match(r"^\s*(\d+)", s): every leading digit.
extract_account_prefix(account) ==
    IF Strip(account) = <<>> \/ Lower(Strip(account)) = T_nan THEN NoPrefix
    ELSE LET rest == SubSeq(account, LeadingSpaces(account) + 1, Len(account))
         IN  SubSeq(rest, 1, LeadingDigits(rest))

\* account_code_prefix with the classifier's pattern: every leading digit
account_code_prefix_LeadingDigits(account) ==
    LET rest == SubSeq(account, LeadingSpaces(account) + 1, Len(account))
    IN  SubSeq(rest, 1, LeadingDigits(rest))

\* re.match(r"^\s*(\d{3})", str(account)): the first three digits, if there are three.
account_code_prefix(account) ==
    LET rest == SubSeq(account, LeadingSpaces(account) + 1, Len(account))
    IN  IF LeadingDigits(rest) >= 3 THEN SubSeq(rest, 1, 3) ELSE NoPrefix

P704 == <<"7","0","4">>
P705 == <<"7","0","5">>
P706 == <<"7","0","6">>
P707 == <<"7","0","7">>
P708 == <<"7","0","8">>
DefaultPrefixes == {P704, P705, P706, P707, P708}

---------------------------------------------------------------------------
(* Inputs *)

\* tables of at most n rows over a set of rows
Tables(Rows, n) == UNION {[1..k -> Rows] : k \in 1..n}

\* account_type cells (after astype(str)) of the ledgers handed to the classifier
AccountTypes ==
    { <<"I","n","c","o","m","e">>,
      <<"O","t","h","e","r"," ","I","n","c","o","m","e">>,
      <<"E","x","p","e","n","s","e">>,
      <<"O","t","h","e","r"," ","E","x","p","e","n","s","e">>,
      <<"C","o","s","t"," ","o","f"," ","G","o","o","d","s"," ","S","o","l","d">>,
      <<"C","O","G","S">>,
      <<" ","c","o","g","s"," ">>,
      <<"C","O","G","S"," ","-"," ","L","a","b","o","r">>,
      <<"L","i","a","b","i","l","i","t","y">>,
      <<>>,
      <<"n","a","n">> }

\* account cells
A_Sales == <<"S","a","l","e","s">>
A_RentalIncome == <<"R","e","n","t","a","l"," ","I","n","c","o","m","e">>
A_705Pool == <<"7","0","5",".","1","4","0"," ","-"," ","P","O","O","L">>
A_7051Supplies == <<"7","0","5","1"," ","S","u","p","p","l","i","e","s">>
A_704Lumber == <<" ","7","0","4",".","0","0","0"," ","-"," ","L","u","m","b","e","r">>
A_865Rent == <<"8","6","5"," ","R","e","n","t">>
A_OwnerSalary == <<"O","w","n","e","r"," ","S","a","l","a","r","y">>
A_Interest == <<"9","0","5"," ","I","n","t","e","r","e","s","t">>
A_CogsMaterial == <<"C","O","G","S"," ","M","a","t","e","r","i","a","l">>

\* the accounts of the ledgers handed to the classifier
ClassifyAccounts == {A_Sales, A_RentalIncome, A_705Pool, A_7051Supplies, A_704Lumber,
                     A_865Rent, <<>>}

Accounts == ClassifyAccounts \cup {A_OwnerSalary, A_Interest, A_CogsMaterial}

PrefixSets == {DefaultPrefixes, {P704}, {}}

ClassifyRows ==
    [account_type : AccountTypes, account : ClassifyAccounts]

\* name cells
N_Customer == <<"C","u","s","t","o","m","e","r"," ","A">>
N_Vendor == <<"V","e","n","d","o","r">>
N_Landlord == <<"L","a","n","d","l","o","r","d">>
N_Nathan == <<"N","a","t","h","a","n">>
N_Bank == <<"B","a","n","k">>

\* the ledger lines of the metrics runs: account_type, account, name
LedgerLines ==
    { [account_type |-> <<"I","n","c","o","m","e">>, account |-> A_Sales, name |-> N_Customer],
      [account_type |-> <<"C","o","s","t"," ","o","f"," ","G","o","o","d","s"," ","S","o","l","d">>,
       account |-> A_CogsMaterial, name |-> N_Vendor],
      [account_type |-> <<"E","x","p","e","n","s","e">>, account |-> A_705Pool, name |-> N_Vendor],
      [account_type |-> <<"E","x","p","e","n","s","e">>, account |-> A_865Rent, name |-> N_Landlord],
      [account_type |-> <<"E","x","p","e","n","s","e">>, account |-> A_OwnerSalary, name |-> N_Nathan],
      [account_type |-> <<"O","t","h","e","r"," ","E","x","p","e","n","s","e">>,
       account |-> A_Interest, name |-> N_Bank] }

Dates == {1, 2}
Amounts == {-6, 3}

MetricRows ==
    { [date |-> d, account |-> l.account, account_type |-> l.account_type,
       name |-> l.name, memo |-> <<>>, amount |-> a] :
      l \in LedgerLines, d \in Dates, a \in Amounts }

\* job-cost prefix sets handed to get_owner_metrics
P865 == <<"8","6","5">>
P905 == <<"9","0","5">>
JobCostPrefixSets == {DefaultPrefixes, {P865, P905}}

---------------------------------------------------------------------------
(* classify_transactions *)

\* ClassifyRow without the precedence of Revenue: the other-expense mask is not
\* narrowed by the revenue mask and no flag is cleared afterwards
ClassifyRow_NoPrecedence(atype0, account0, prefixes) ==
    LET atype == Lower(atype0)
        account_prefix == extract_account_prefix(account0)
        is_revenue0 == Contains(atype, T_income) \/ Contains(Lower(account0), T_income)
        is_other0 == Contains(atype, T_other_expense) \/ Contains(atype, T_other_income)
        expense_like == \/ Contains(atype, T_expense)
                        \/ Contains(atype, T_cost_of_goods_sold)
                        \/ Contains(atype, T_cogs)
        remaining == expense_like /\ ~is_revenue0 /\ ~is_other0
        cogs_mask == remaining /\ (\/ Contains(atype, T_cost_of_goods_sold)
                                   \/ Strip(atype) = T_cogs
                                   \/ account_prefix \in prefixes)
    IN  [account_prefix |-> account_prefix,
         is_revenue |-> is_revenue0,
         is_cogs |-> cogs_mask,
         is_overhead |-> remaining /\ ~cogs_mask,
         is_other_expense |-> is_other0,
         classification |-> IF is_revenue0 THEN "Revenue" ELSE "Other"]

\* ClassifyRow whose revenue mask reads the account type only, not the account
ClassifyRow_TypeOnly(atype0, account0, prefixes) ==
    LET atype == Lower(atype0)
        account_prefix == extract_account_prefix(account0)
        revenue_mask == Contains(atype, T_income)
        is_other0 == /\ Contains(atype, T_other_expense) \/ Contains(atype, T_other_income)
                     /\ ~revenue_mask
        expense_like == \/ Contains(atype, T_expense)
                        \/ Contains(atype, T_cost_of_goods_sold)
                        \/ Contains(atype, T_cogs)
        remaining == expense_like /\ ~revenue_mask /\ ~is_other0
        cogs_mask == remaining /\ (\/ Contains(atype, T_cost_of_goods_sold)
                                   \/ Strip(atype) = T_cogs
                                   \/ account_prefix \in prefixes)
    IN  [account_prefix |-> account_prefix,
         is_revenue |-> revenue_mask,
         is_cogs |-> cogs_mask,
         is_overhead |-> remaining /\ ~cogs_mask,
         is_other_expense |-> is_other0,
         classification |->
            IF revenue_mask THEN "Revenue"
            ELSE IF cogs_mask THEN "COGS"
            ELSE IF remaining THEN "Overhead"
            ELSE IF atype = <<>> THEN "Unclassified" ELSE "Other"]

\* The flags and derived columns classify_transactions gives one row.
\* atype0 and account0 are the cells after astype(str).
ClassifyRow(atype0, account0, prefixes) ==
    LET atype == Lower(atype0)
        account_lower == Lower(account0)
        account_prefix == extract_account_prefix(account0)
        revenue_mask == Contains(atype, T_income) \/ Contains(account_lower, T_income)
        other_exp_mask == Contains(atype, T_other_expense) \/ Contains(atype, T_other_income)
        is_revenue0 == revenue_mask
        is_other0 == other_exp_mask /\ ~revenue_mask
        expense_like == \/ Contains(atype, T_expense)
                        \/ Contains(atype, T_cost_of_goods_sold)
                        \/ Contains(atype, T_cogs)
        remaining == expense_like /\ ~is_revenue0 /\ ~is_other0
        is_explicit_cogs == \/ Contains(atype, T_cost_of_goods_sold)
                            \/ Strip(atype) = T_cogs
        is_cogs_prefix == account_prefix \in prefixes
        cogs_mask == remaining /\ (is_explicit_cogs \/ is_cogs_prefix)
        overhead_mask == remaining /\ ~cogs_mask
        \* "Ensure mutual exclusivity": three assignments in order
        is_cogs1 == cogs_mask /\ ~is_revenue0
        is_overhead1 == overhead_mask /\ ~is_revenue0
        is_other1 == is_other0 /\ ~is_revenue0
        is_cogs2 == is_cogs1 /\ ~is_other1
        is_overhead2 == is_overhead1 /\ ~is_other1
        is_overhead3 == is_overhead2 /\ ~is_cogs2
    IN  [account_prefix |-> account_prefix,
         is_revenue |-> is_revenue0,
         is_cogs |-> is_cogs2,
         is_overhead |-> is_overhead3,
         is_other_expense |-> is_other1,
         classification |->
            IF is_revenue0 THEN "Revenue"
            ELSE IF is_cogs2 THEN "COGS"
            ELSE IF is_overhead3 THEN "Overhead"
            ELSE IF is_other1 THEN "Other"
            ELSE IF atype = <<>> THEN "Unclassified" ELSE "Other"]

\* WithColumns that keeps a derived column the row already carries
WithColumns_KeepExisting(row, cols) ==
    [k \in (DOMAIN row) \cup (DOMAIN cols) |->
        IF k \in DOMAIN row THEN row[k] ELSE cols[k]]

\* Merge of a row with its derived columns: the flags are initialised and the
\* columns assigned whether or not the frame carries them already.
WithColumns(row, cols) ==
    [k \in (DOMAIN row) \cup (DOMAIN cols) |->
        IF k \in DOMAIN cols THEN cols[k] ELSE row[k]]

\* ClassifyRow on every combination of cells of the inputs, computed once
ClassifyTable ==
    { <<at, ac, p, ClassifyRow(at, ac, p)>> :
        at \in AccountTypes, ac \in Accounts, p \in PrefixSets }

Classified(atype0, account0, prefixes) ==
    (CHOOSE t \in ClassifyTable :
        t[1] = atype0 /\ t[2] = account0 /\ t[3] = prefixes)[4]

classify_transactions(frame, prefixes) ==
    [i \in 1..Len(frame) |->
        WithColumns(frame[i],
                    Classified(frame[i].account_type, frame[i].account, prefixes))]

---------------------------------------------------------------------------
(* detect_addbacks *)

WordChars == Digits \cup {"_"} \cup {LowerCase[i] : i \in 1..26}
                    \cup {UpperCase[i] : i \in 1..26}

\* \b between s[p] and s[p+1] (p = 0 and p = Len(s) are the ends of the text)
Boundary(s, p) ==
    LET before == p >= 1 /\ p <= Len(s) /\ s[p] \in WordChars
        after == p + 1 >= 1 /\ p + 1 <= Len(s) /\ s[p + 1] \in WordChars
    IN  before # after

\* str.contains(r"\b" + re.escape(t) + r"\b")
ContainsWord(s, t) ==
    \E i \in 1..(Len(s) + 1) :
        /\ OccursAt(s, t, i)
        /\ Boundary(s, i - 1)
        /\ Boundary(s, i + Len(t) - 1)

T_xnp == <<"x","n","p">>
T_ng == <<"n","g">>
T_nathan == <<"n","a","t","h","a","n">>
T_owner == <<"o","w","n","e","r">>
T_personal == <<"p","e","r","s","o","n","a","l">>
BaseTokens == <<T_xnp, T_ng, T_nathan, T_owner, T_personal>>

TokenHit(row, t) ==
    ContainsWord(Lower(row.name), t) \/ ContainsWord(Lower(row.memo), t)

\* the reason trail of one row: one "token=<t>" entry per hitting token, in order
RECURSIVE ReasonTrail(_, _, _, _)
ReasonTrail(row, tokens, i, acc) ==
    IF i > Len(tokens) THEN acc
    ELSE ReasonTrail(row, tokens, i + 1,
            IF tokens[i] # <<>> /\ TokenHit(row, tokens[i])
            THEN Append(acc, tokens[i]) ELSE acc)

detect_addbacks(frame, custom_tokens) ==
    LET raw_tokens == BaseTokens \o [i \in 1..Len(custom_tokens) |-> Lower(custom_tokens[i])]
    IN  [i \in 1..Len(frame) |->
            LET trail == ReasonTrail(frame[i], raw_tokens, 1, <<>>)
            IN  WithColumns(frame[i],
                    [sde_addback_flag |-> trail # <<>>,
                     sde_addback_reason |-> trail])]

---------------------------------------------------------------------------
(* Aggregation helpers *)

\* the magnitudes of the selected rows: what a sum of per-row absolute values adds
AmountColumn_Magnitudes(rows) == [i \in 1..Len(rows) |-> Abs(rows[i].amount)]

\* df.loc[mask, "amount"]: the amounts of the selected rows, in row order
AmountColumn(rows) == [i \in 1..Len(rows) |-> rows[i].amount]

Positive(x) == x > 0
Negative(x) == x < 0

\* addbacks netted like the other buckets: sum, then flip
AddbackTotal_Netted(series) == net_to_positive(FSum(series))

\* "prefer one sign": the positive flagged amounts if there are any, else the
\* negated sum of the negative ones
AddbackTotal(series) ==
    IF \E i \in 1..Len(series) : series[i] > 0
    THEN FSum(SelectSeq(series, Positive))
    ELSE -FSum(SelectSeq(series, Negative))

---------------------------------------------------------------------------
(* get_period_metrics *)

\* net profit that forgets other_expense
PeriodNetProfit_NoOther(revenue, cogs, overhead, other_expense) ==
    FSub(revenue, FAdd(cogs, overhead))

PeriodNetProfit(revenue, cogs, overhead, other_expense) ==
    FSub(revenue, FAdd(FAdd(cogs, overhead), other_expense))

get_period_metrics(df_period) ==
    LET revenue == net_to_positive(FSum(AmountColumn(SelectSeq(df_period, LAMBDA r : r.is_revenue))))
        cogs == net_to_positive(FSum(AmountColumn(SelectSeq(df_period, LAMBDA r : r.is_cogs))))
        overhead == net_to_positive(FSum(AmountColumn(SelectSeq(df_period, LAMBDA r : r.is_overhead))))
        other_expense ==
            net_to_positive(FSum(AmountColumn(SelectSeq(df_period, LAMBDA r : r.is_other_expense))))
        addbacks == AddbackTotal(AmountColumn(SelectSeq(df_period, LAMBDA r : r.sde_addback_flag)))
        gross_profit == FSub(revenue, cogs)
        net_profit == PeriodNetProfit(revenue, cogs, overhead, other_expense)
    IN  [revenue |-> revenue,
         cogs |-> cogs,
         overhead |-> overhead,
         other_expense |-> other_expense,
         gross_profit |-> gross_profit,
         net_profit |-> net_profit,
         addbacks |-> addbacks,
         sde |-> FAdd(net_profit, addbacks)]

---------------------------------------------------------------------------
(* get_owner_metrics *)

\* aug_plus_mask
InSteadyWindow(r, owner_revenue_start) == r.date >= owner_revenue_start

\* july_mask
InLegacyWindow(r, owner_period_start, owner_revenue_start) ==
    r.date >= owner_period_start /\ r.date < owner_revenue_start

\* overhead of the steady window only
OwnerOverheadRaw_SteadyOnly(overhead_aug_raw, legacy_july_included_overhead_raw) ==
    overhead_aug_raw

\* overhead_raw = overhead_aug_raw + legacy_july_included_overhead_raw
OwnerOverheadRaw(overhead_aug_raw, legacy_july_included_overhead_raw) ==
    FAdd(overhead_aug_raw, legacy_july_included_overhead_raw)

\* other expense of the whole owner period
OwnerOtherExpenseMask_WholePeriod(r, owner_period_start, owner_revenue_start) ==
    r.is_other_expense

\* other_expense_raw: the rows of the steady window only
OwnerOtherExpenseMask(r, owner_period_start, owner_revenue_start) ==
    r.is_other_expense /\ InSteadyWindow(r, owner_revenue_start)

\* legacy overhead kept whatever its prefix
JulyOverheadMask_NoExclusion(r, in_july, is_job_cost_prefix, exclude_legacy_july_job_costs) ==
    r.is_overhead /\ in_july

\* july_overhead_mask
JulyOverheadMask(r, in_july, is_job_cost_prefix, exclude_legacy_july_job_costs) ==
    IF exclude_legacy_july_job_costs
    THEN r.is_overhead /\ in_july /\ ~is_job_cost_prefix
    ELSE r.is_overhead /\ in_july

\* revenue of the whole owner period
OwnerRevenueMask_WholePeriod(r, owner_revenue_start) == r.is_revenue

\* rev_mask
OwnerRevenueMask(r, owner_revenue_start) ==
    r.is_revenue /\ r.date >= owner_revenue_start

\* COGS of the whole owner period
OwnerCogsMask_WholePeriod(r, owner_revenue_start) == r.is_cogs

\* cogs_owner_mask
OwnerCogsMask(r, owner_revenue_start) ==
    r.is_cogs /\ InSteadyWindow(r, owner_revenue_start)

\* addbacks of the steady window only
OwnerAddbackMask_NoOverrides(r, addback_account_overrides, owner_revenue_start) ==
    r.sde_addback_flag

OwnerAddbackMask_SteadyOnly(r, addback_account_overrides, owner_revenue_start) ==
    r.sde_addback_flag /\ InSteadyWindow(r, owner_revenue_start)

\* addback_mask: the token flag or an account override, without any date test
OwnerAddbackMask(r, addback_account_overrides, owner_revenue_start) ==
    IF addback_account_overrides # {}
    THEN r.sde_addback_flag \/ r.account \in addback_account_overrides
    ELSE r.sde_addback_flag

get_owner_metrics(frame, owner_period_start, current_date, owner_revenue_start, addback_account_overrides, exclude_legacy_july_job_costs, legacy_job_cost_prefixes) ==
    LET df_window == SelectSeq(frame,
            LAMBDA r : r.date >= owner_period_start /\ r.date <= current_date)
        july(r) == InLegacyWindow(r, owner_period_start, owner_revenue_start)
        aug_plus(r) == InSteadyWindow(r, owner_revenue_start)
        is_job_cost_prefix(r) == account_code_prefix(r.account) \in legacy_job_cost_prefixes
        is_expense(r) == r.is_overhead \/ r.is_other_expense \/ r.is_cogs
        revenue == net_to_positive(FSum(AmountColumn(SelectSeq(df_window,
            LAMBDA r : OwnerRevenueMask(r, owner_revenue_start)))))
        legacy_july_total_expense == net_to_positive(FSum(AmountColumn(SelectSeq(df_window,
            LAMBDA r : july(r) /\ is_expense(r)))))
        legacy_july_excluded_job_cost == net_to_positive(FSum(AmountColumn(SelectSeq(df_window,
            LAMBDA r : july(r) /\ is_job_cost_prefix(r) /\ is_expense(r)))))
        cogs == net_to_positive(FSum(AmountColumn(SelectSeq(df_window,
            LAMBDA r : OwnerCogsMask(r, owner_revenue_start)))))
        legacy_cogs == net_to_positive(FSum(AmountColumn(SelectSeq(df_window,
            LAMBDA r : r.is_cogs /\ july(r)))))
        overhead_aug_raw == FSum(AmountColumn(SelectSeq(df_window,
            LAMBDA r : r.is_overhead /\ aug_plus(r))))
        july_overhead_mask(r) ==
            JulyOverheadMask(r, july(r), is_job_cost_prefix(r),
                             exclude_legacy_july_job_costs)
        legacy_july_included_overhead_raw == FSum(AmountColumn(SelectSeq(df_window, july_overhead_mask)))
        overhead_raw == OwnerOverheadRaw(overhead_aug_raw, legacy_july_included_overhead_raw)
        other_expense_raw == FSum(AmountColumn(SelectSeq(df_window,
            LAMBDA r : OwnerOtherExpenseMask(r, owner_period_start, owner_revenue_start))))
        overhead == net_to_positive(overhead_raw)
        other_expense == net_to_positive(other_expense_raw)
        addback_mask(r) ==
            OwnerAddbackMask(r, addback_account_overrides, owner_revenue_start)
        addbacks == AddbackTotal(AmountColumn(SelectSeq(df_window, addback_mask)))
        gross_profit == FSub(revenue, cogs)
        net_profit == PeriodNetProfit(revenue, cogs, overhead, other_expense)
    IN  [revenue |-> revenue,
         cogs |-> cogs,
         legacy_cogs |-> legacy_cogs,
         overhead |-> overhead,
         other_expense |-> other_expense,
         gross_profit |-> gross_profit,
         net_profit |-> net_profit,
         addbacks |-> addbacks,
         sde |-> FAdd(net_profit, addbacks),
         legacy_july_total_expense |-> legacy_july_total_expense,
         legacy_july_excluded_job_cost |-> legacy_july_excluded_job_cost,
         legacy_july_included_overhead |-> net_to_positive(legacy_july_included_overhead_raw)]

---------------------------------------------------------------------------
(* compute_monthly_kpis *)

\* d["date"].dt.to_period("M")
Month(date) == (date - 1) \div DaysPerMonth

RECURSIVE SortedSeq(_)
SortedSeq(S) ==
    IF S = {} THEN <<>>
    ELSE LET m == CHOOSE x \in S : \A y \in S : x <= y
         IN  <<m>> \o SortedSeq(S \ {m})

\* net_profit = gross_profit - overhead - other_expense
MonthlyNetProfit(gross_profit, overhead, other_expense) ==
    FSub(FSub(gross_profit, overhead), other_expense)

\* amount_kpi: revenue rows dated before owner_revenue_start count 0.0
AmountKpi(r, owner_revenue_start) ==
    IF r.is_revenue /\ r.date < owner_revenue_start THEN 0 ELSE r.amount

\* _addbacks_by_month for one month: the flagged rows' magnitudes, summed
MonthAddbacks(frame, m) ==
    LET rows == SelectSeq(frame, LAMBDA r : r.sde_addback_flag /\ Month(r.date) = m)
    IN  FSum([i \in 1..Len(rows) |-> Abs(rows[i].amount)])

MonthRow(frame, m, owner_revenue_start) ==
    LET raw(class) ==
            LET rows == SelectSeq(frame,
                    LAMBDA r : Month(r.date) = m /\ r.classification = class)
            IN  FSum([i \in 1..Len(rows) |-> AmountKpi(rows[i], owner_revenue_start)])
        revenue == net_to_positive(raw("Revenue"))
        cogs == net_to_positive(raw("COGS"))
        overhead == net_to_positive(raw("Overhead"))
        other_expense == net_to_positive(raw("Other"))
        gross_profit == FSub(revenue, cogs)
        net_profit == MonthlyNetProfit(gross_profit, overhead, other_expense)
        addbacks == MonthAddbacks(frame, m)
    IN  [month |-> m,
         revenue |-> revenue,
         cogs |-> cogs,
         overhead |-> overhead,
         other_expense |-> other_expense,
         gross_profit |-> gross_profit,
         net_profit |-> net_profit,
         addbacks |-> addbacks,
         sde |-> FAdd(net_profit, addbacks)]

\* the pivot: one row per month that has a transaction, sorted by month
MonthlyPivot(frame, owner_revenue_start) ==
    LET months == SortedSeq({Month(frame[i].date) : i \in 1..Len(frame)})
    IN  [k \in 1..Len(months) |-> MonthRow(frame, months[k], owner_revenue_start)]

\* float("nan"): what shift(1) puts before the first month
NaN == [nan |-> TRUE]

\* a quotient of two floats, held as the pair it was computed from
Quotient(n, d) == [numer |-> n, denom |-> d]

\* pd.Series(list): a list with a float in it becomes a float column, its None
\* entries NaN; a list of None only stays as it is
SeriesOf(vals) ==
    IF \E i \in 1..Len(vals) : vals[i] # None
    THEN [i \in 1..Len(vals) |-> IF vals[i] = None THEN NaN ELSE vals[i]]
    ELSE vals

\* _safe_divide without the test of the denominator
SafeDivide_ZeroForZero(numer, denom) ==
    SeriesOf([i \in 1..Len(numer) |->
        IF denom[i] = 0 THEN Quotient(0, 1) ELSE Quotient(numer[i], denom[i])])

\* _safe_divide(numer, denom)
SafeDivide(numer, denom) ==
    SeriesOf([i \in 1..Len(numer) |->
        IF denom[i] = 0 THEN None ELSE Quotient(numer[i], denom[i])])

Column(rows, key) == [i \in 1..Len(rows) |-> rows[i][key]]

\* delta = pivot[metric] - pivot[metric].shift(1)
MomDelta(col) ==
    [i \in 1..Len(col) |-> IF i = 1 THEN NaN ELSE FSub(col[i], col[i-1])]

MomPct_ZeroForZero(col) ==
    SeriesOf([i \in 1..Len(col) |->
        IF i = 1 THEN NaN
        ELSE IF col[i-1] = 0 THEN Quotient(0, 1)
        ELSE Quotient(FSub(col[i], col[i-1]), col[i-1])])

\* pct: the prior value nan is not 0.0, and anything divided by nan is nan
MomPct(col) ==
    SeriesOf([i \in 1..Len(col) |->
        IF i = 1 THEN NaN
        ELSE IF col[i-1] = 0 THEN None
        ELSE Quotient(FSub(col[i], col[i-1]), col[i-1])])

\* the pivot with its margin and month-over-month columns
compute_monthly_kpis(frame, owner_revenue_start) ==
    LET pivot == MonthlyPivot(frame, owner_revenue_start)
        rev == Column(pivot, "revenue")
        gross_margin_pct == SafeDivide(Column(pivot, "gross_profit"), rev)
        net_margin_pct == SafeDivide(Column(pivot, "net_profit"), rev)
        sde_margin_pct == SafeDivide(Column(pivot, "sde"), rev)
        overhead_pct == SafeDivide(Column(pivot, "overhead"), rev)
        cogs_pct == SafeDivide(Column(pivot, "cogs"), rev)
        revenue_mom_delta == MomDelta(rev)
        revenue_mom_pct == MomPct(rev)
        net_profit_mom_delta == MomDelta(Column(pivot, "net_profit"))
        net_profit_mom_pct == MomPct(Column(pivot, "net_profit"))
        sde_mom_delta == MomDelta(Column(pivot, "sde"))
        sde_mom_pct == MomPct(Column(pivot, "sde"))
    IN  [k \in 1..Len(pivot) |->
            WithColumns(pivot[k],
                [gross_margin_pct |-> gross_margin_pct[k],
                 net_margin_pct |-> net_margin_pct[k],
                 sde_margin_pct |-> sde_margin_pct[k],
                 overhead_pct |-> overhead_pct[k],
                 cogs_pct |-> cogs_pct[k],
                 revenue_mom_delta |-> revenue_mom_delta[k],
                 revenue_mom_pct |-> revenue_mom_pct[k],
                 net_profit_mom_delta |-> net_profit_mom_delta[k],
                 net_profit_mom_pct |-> net_profit_mom_pct[k],
                 sde_mom_delta |-> sde_mom_delta[k],
                 sde_mom_pct |-> sde_mom_pct[k]])]

---------------------------------------------------------------------------
(* apply_legacy_overhead_addins *)

\* out = dict(metrics) with one key set
SetKey(metrics, key, value) ==
    [k \in DOMAIN metrics \cup {key} |-> IF k = key THEN value ELSE metrics[k]]

\* the add-in raises overhead and leaves net_profit and sde as they were
apply_legacy_overhead_addins_OverheadOnly(metrics, legacy_overhead_included_total) ==
    IF legacy_overhead_included_total = 0 THEN metrics
    ELSE SetKey(SetKey(metrics, "overhead",
                       FAdd(metrics.overhead, legacy_overhead_included_total)),
                "legacy_overhead_included", legacy_overhead_included_total)

apply_legacy_overhead_addins(metrics, legacy_overhead_included_total) ==
    LET legacy_total == legacy_overhead_included_total
        revenue == metrics.revenue
        cogs == metrics.cogs
        overhead == FAdd(metrics.overhead, legacy_total)
        other_expense == metrics.other_expense
        addbacks == metrics.addbacks
        net_profit == FSub(revenue, FAdd(FAdd(cogs, overhead), other_expense))
        out1 == SetKey(metrics, "overhead", overhead)
        out2 == SetKey(out1, "gross_profit", FSub(revenue, cogs))
        out3 == SetKey(out2, "net_profit", net_profit)
        out4 == SetKey(out3, "sde", FAdd(net_profit, addbacks))
    IN  IF legacy_total = 0 THEN metrics
        ELSE SetKey(out4, "legacy_overhead_included", legacy_total)

---------------------------------------------------------------------------
(* compute_legacy_overhead_addins *)

\* mask, narrowed to the accounts "if included_accounts:"
LegacyAddinMask(r, legacy_start, legacy_end, included_accounts) ==
    /\ r.date >= legacy_start /\ r.date <= legacy_end /\ r.is_overhead
    /\ (included_accounts # {} => r.account \in included_accounts)

compute_legacy_overhead_addins(frame, legacy_start, legacy_end, included_accounts) ==
    IF Len(frame) = 0 THEN 0
    ELSE net_to_positive(FSum(AmountColumn(SelectSeq(frame,
            LAMBDA r : LegacyAddinMask(r, legacy_start, legacy_end, included_accounts)))))

---------------------------------------------------------------------------
(* calculate_run_rates, forecast_year_1 *)

\* 30.4375 = AvgMonthNum / AvgMonthDen days
AvgMonthNum == 487
AvgMonthDen == 16

\* a month count is held in units of 2^-FracBits month
OneMonth == 2^FracBits

\* days / 30.4375
MonthsOf(days) == FlRat(days * AvgMonthDen * OneMonth, AvgMonthNum)

\* months without the floor of one month
RunRateMonths_NoFloor(days) == MonthsOf(days)

\* months = max(days / 30.4375, 1.0)
RunRateMonths(days) == Max(MonthsOf(days), OneMonth)

calculate_run_rates(owner_metrics, days_in_owner_revenue_period) ==
    LET months == RunRateMonths(days_in_owner_revenue_period)
    IN  [k \in DOMAIN owner_metrics |-> FlRat(owner_metrics[k] * OneMonth, months)]

\* remaining months without the floor at zero
MonthsRemaining_NoFloor(days_remaining_in_year_1) == MonthsOf(days_remaining_in_year_1)

\* months_remaining = max(days_remaining_in_year_1 / 30.4375, 0)
MonthsRemaining(days_remaining_in_year_1) ==
    Max(MonthsOf(days_remaining_in_year_1), 0)

forecast_year_1(owner_ytd_metrics, monthly_run_rates, days_remaining_in_year_1) ==
    LET months_remaining == MonthsRemaining(days_remaining_in_year_1)
        forecast_add ==
            [k \in DOMAIN monthly_run_rates |->
                FlRat(monthly_run_rates[k] * months_remaining, OneMonth)]
    IN  [year_1_forecast |->
            [k \in DOMAIN owner_ytd_metrics |->
                FAdd(owner_ytd_metrics[k],
                     IF k \in DOMAIN monthly_run_rates THEN forecast_add[k] ELSE 0)],
         months_remaining |-> months_remaining]

---------------------------------------------------------------------------
(* match_qb_and_bank *)

\* Series.round(2) of an amount given in thousandths: to the nearest hundredth,
\* ties to the even hundredth
Round2(amount) ==
    LET a == Abs(amount)
        q == a \div 10
        r == a % 10
        m == IF r > 5 \/ (r = 5 /\ q % 2 = 1) THEN q + 1 ELSE q
    IN  IF amount < 0 THEN -(m * 10) ELSE m * 10

\* abs((d - d_qb).days)
DateDiff(d, d_qb) == Abs(d - d_qb)

\* grouping that ignores the sign of the amount
BankGroup_AnySign(bank_rows, amt) ==
    SelectSeq([i \in 1..Len(bank_rows) |-> i],
              LAMBDA i : Abs(Round2(bank_rows[i].amount)) = Abs(amt))

\* bank_groups.groups[amt]: the labels of the bank rows of one rounded amount,
\* in input order
BankGroup(bank_rows, amt) ==
    SelectSeq([i \in 1..Len(bank_rows) |-> i],
              LAMBDA i : Round2(bank_rows[i].amount) = amt)

\* candidates that forget which bank rows are consumed
Candidates_Reuse(bank_rows, qb_row, tolerance, used) ==
    SelectSeq(BankGroup(bank_rows, Round2(qb_row.amount)),
              LAMBDA i : /\ bank_rows[i].date >= qb_row.date - tolerance
                         /\ bank_rows[i].date <= qb_row.date + tolerance)

\* candidates of a date window that leaves out its two end days
Candidates_OpenWindow(bank_rows, qb_row, tolerance, used) ==
    SelectSeq(BankGroup(bank_rows, Round2(qb_row.amount)),
              LAMBDA i : /\ bank_rows[i].date > qb_row.date - tolerance
                         /\ bank_rows[i].date < qb_row.date + tolerance
                         /\ i \notin used)

\* the candidates of one ledger row: its amount group, inside the date window
\* (Series.between is inclusive), not yet consumed
Candidates(bank_rows, qb_row, tolerance, used) ==
    SelectSeq(BankGroup(bank_rows, Round2(qb_row.amount)),
              LAMBDA i : /\ bank_rows[i].date >= qb_row.date - tolerance
                         /\ bank_rows[i].date <= qb_row.date + tolerance
                         /\ i \notin used)

\* the first candidate, whatever its distance
IdxMin_First(bank_rows, cands, d_qb) == cands[1]

\* date_diffs.idxmin(): the label of the first minimum
IdxMin(bank_rows, cands, d_qb) ==
    cands[CHOOSE k \in 1..Len(cands) :
            /\ \A j \in 1..Len(cands) :
                DateDiff(bank_rows[cands[k]].date, d_qb)
                    <= DateDiff(bank_rows[cands[j]].date, d_qb)
            /\ \A j \in 1..(k-1) :
                DateDiff(bank_rows[cands[j]].date, d_qb)
                    > DateDiff(bank_rows[cands[k]].date, d_qb)]

MatchRecord(qb_idx, bank_idx) ==
    [qb_index |-> qb_idx,
     bank_index |-> bank_idx,
     qb_date |-> qb[qb_idx].date,
     qb_amount |-> qb[qb_idx].amount,
     bank_date |-> bank[bank_idx].date,
     bank_amount |-> bank[bank_idx].amount]

\* qb[~qb.index.isin(matched_qb_indices)]
UnmatchedQb(qb_rows, matched) ==
    SelectSeq([i \in 1..Len(qb_rows) |-> i],
              LAMBDA i : \A k \in 1..Len(matched) : matched[k].qb_index # i)

\* bank[~bank.index.isin(used_bank_indices)]
UnmatchedBank(bank_rows, used) ==
    SelectSeq([i \in 1..Len(bank_rows) |-> i], LAMBDA i : i \notin used)

---------------------------------------------------------------------------
(* The runs *)

NoMatchRun ==
    /\ qb = <<>> /\ bank = <<>> /\ date_tolerance_days = 0 /\ qb_pos = 0
    /\ matched_rows = <<>> /\ used_bank_indices = {} /\ match_result = None

NoMetricsRun == owner = None /\ period = None /\ monthly = None /\ params = None

matchVars == <<qb, bank, date_tolerance_days, qb_pos, matched_rows,
               used_bank_indices, match_result>>

NoForecastRun == adjusted = None /\ run_rates = None /\ forecast = None

forecastVars == <<adjusted, run_rates, forecast>>

NoRuleRun == rule_objs = <<>> /\ rules = <<>> /\ rule_out = None

ruleVars == <<rule_objs, rules, rule_out>>

\* a ledger has been loaded and is about to be classified
InitClassify ==
    /\ pc = "loaded"
    /\ ledger \in Tables(ClassifyRows, MaxClassifyRows)
    /\ cogs_prefixes \in PrefixSets
    /\ df = <<>>
    /\ NoMetricsRun
    /\ NoMatchRun
    /\ NoForecastRun
    /\ NoRuleRun
    /\ legacy_addins_total = None

\* the rows of a ledger classified with the default prefixes and flagged, as
\* every caller does before it computes metrics
PreparedRows ==
    { detect_addbacks(classify_transactions(<<r>>, DefaultPrefixes), <<>>)[1] :
        r \in MetricRows }

InitMetrics ==
    /\ pc = "classified"
    /\ ledger = <<>>
    /\ cogs_prefixes = DefaultPrefixes
    /\ df \in Tables(PreparedRows, MaxRows)
    /\ NoMetricsRun
    /\ NoMatchRun
    /\ NoForecastRun
    /\ NoRuleRun
    /\ legacy_addins_total = None

\* a line whose account_type the classifier does not know
L_Loan ==
    [account_type |-> <<"L","i","a","b","i","l","i","t","y">>,
     account |-> A_OwnerSalary, name |-> N_Nathan]

\* the dates of the ledgers of the monthly runs
MonthlyDates == {1, 2, 3}

MaxMonthlyRows == 2     \* rows of a frame of the monthly runs

MonthlyRows ==
    { detect_addbacks(classify_transactions(<<
          [date |-> d, account |-> l.account, account_type |-> l.account_type,
           name |-> l.name, memo |-> <<>>, amount |-> a] >>, DefaultPrefixes), <<>>)[1] :
        l \in LedgerLines \cup {L_Loan}, d \in MonthlyDates, a \in Amounts }

InitMonthly ==
    /\ pc = "classified"
    /\ ledger = <<>>
    /\ cogs_prefixes = DefaultPrefixes
    /\ df \in Tables(MonthlyRows, MaxMonthlyRows)
    /\ NoMetricsRun
    /\ NoMatchRun
    /\ NoForecastRun
    /\ NoRuleRun
    /\ legacy_addins_total = None

\* rent paid to the owner: an overhead line that the name flags as an addback
OwnerRentRows ==
    { [date |-> d, account |-> A_865Rent,
       account_type |-> <<"E","x","p","e","n","s","e">>,
       name |-> N_Nathan, memo |-> <<>>, amount |-> a] :
      d \in Dates, a \in Amounts }

PreparedOwnerRows ==
    PreparedRows \cup
    { detect_addbacks(classify_transactions(<<r>>, DefaultPrefixes), <<>>)[1] :
        r \in OwnerRentRows }

\* an expense line whose account code has four digits: overhead for the
\* classifier (prefix 7051), a job cost by its first three digits
SuppliesRows ==
    { detect_addbacks(classify_transactions(<<
          [date |-> d, account |-> A_7051Supplies,
           account_type |-> <<"E","x","p","e","n","s","e">>,
           name |-> N_Vendor, memo |-> <<>>, amount |-> a] >>, DefaultPrefixes), <<>>)[1] :
        d \in Dates, a \in Amounts }

InitLegacy ==
    /\ pc = "classified"
    /\ ledger = <<>>
    /\ cogs_prefixes = DefaultPrefixes
    /\ df \in Tables(PreparedRows \cup SuppliesRows, MaxOwnerRows)
    /\ NoMetricsRun
    /\ NoMatchRun
    /\ NoForecastRun
    /\ NoRuleRun
    /\ legacy_addins_total = None

InitOwner ==
    /\ pc = "classified"
    /\ ledger = <<>>
    /\ cogs_prefixes = DefaultPrefixes
    /\ df \in Tables(PreparedOwnerRows, MaxOwnerRows)
    /\ NoMetricsRun
    /\ NoMatchRun
    /\ NoForecastRun
    /\ NoRuleRun
    /\ legacy_addins_total = None

\* amounts in thousandths, dates in days
MatchAmounts == {1000, 1004, -1000}
MatchDates == {1, 3}
MatchRows == [date : MatchDates, amount : MatchAmounts]
Tolerances == {1, 2}

\* match_qb_and_bank has been called and has built its helper columns
InitMatch ==
    /\ pc = "matching"
    /\ qb \in Tables(MatchRows, MaxQbRows)
    /\ bank \in Tables(MatchRows, MaxBankRows)
    /\ date_tolerance_days \in Tolerances
    /\ qb_pos = 0
    /\ matched_rows = <<>>
    /\ used_bank_indices = {}
    /\ match_result = None
    /\ ledger = <<>> /\ cogs_prefixes = {} /\ df = <<>>
    /\ NoMetricsRun
    /\ NoForecastRun
    /\ NoRuleRun
    /\ legacy_addins_total = None

ClassifyTransactions ==
    /\ pc = "loaded"
    /\ df' = classify_transactions(ledger, cogs_prefixes)
    /\ pc' = "classified_only"
    /\ UNCHANGED <<ledger, cogs_prefixes, params, owner, period, monthly>>
    /\ UNCHANGED matchVars
    /\ UNCHANGED <<forecastVars, ruleVars>>
    /\ UNCHANGED legacy_addins_total

\* classify_transactions applied to its own output, with any prefix set
ClassifyAgain ==
    /\ pc = "classified_only"
    /\ \E p \in PrefixSets :
        /\ params' = [cogs_prefixes |-> p]
        /\ df' = classify_transactions(df, p)
    /\ pc' = "classified_twice"
    /\ UNCHANGED <<ledger, cogs_prefixes, owner, period, monthly>>
    /\ UNCHANGED matchVars
    /\ UNCHANGED <<forecastVars, ruleVars>>
    /\ UNCHANGED legacy_addins_total

GetPeriodMetrics ==
    /\ pc = "classified"
    /\ period' = get_period_metrics(df)
    /\ pc' = "period"
    /\ UNCHANGED <<ledger, cogs_prefixes, df, params, owner, monthly>>
    /\ UNCHANGED matchVars
    /\ UNCHANGED <<forecastVars, ruleVars>>
    /\ UNCHANGED legacy_addins_total

\* the arguments of the calls
OwnerParams ==
    { [owner_period_start |-> ps, current_date |-> cd, owner_revenue_start |-> rs,
       addback_account_overrides |-> {},
       exclude_legacy_july_job_costs |-> ex,
       legacy_job_cost_prefixes |-> jp] :
      ps \in Dates, cd \in Dates, rs \in Dates, ex \in BOOLEAN, jp \in JobCostPrefixSets }

OwnerMetricsOf(frame, p) ==
    get_owner_metrics(frame, p.owner_period_start, p.current_date,
                      p.owner_revenue_start, p.addback_account_overrides,
                      p.exclude_legacy_july_job_costs, p.legacy_job_cost_prefixes)

GetOwnerMetrics ==
    /\ pc = "classified"
    /\ \E p \in OwnerParams :
        /\ params' = p
        /\ owner' = OwnerMetricsOf(df, p)
    /\ pc' = "owner"
    /\ UNCHANGED <<ledger, cogs_prefixes, df, period, monthly>>
    /\ UNCHANGED matchVars
    /\ UNCHANGED <<forecastVars, ruleVars>>
    /\ UNCHANGED legacy_addins_total

\* the accounts the user ticks as addbacks
OverrideSets == { {A_865Rent}, {A_865Rent, A_Interest} }

\* get_owner_metrics(..., addback_account_overrides=updated_addbacks)
GetOwnerMetricsOverrides ==
    /\ pc = "classified"
    /\ \E p \in OwnerParams : \E o \in OverrideSets :
        /\ params' = [p EXCEPT !.addback_account_overrides = o]
        /\ owner' = OwnerMetricsOf(df, params')
    /\ pc' = "owner_overrides"
    /\ UNCHANGED <<ledger, cogs_prefixes, df, period, monthly>>
    /\ UNCHANGED matchVars
    /\ UNCHANGED <<forecastVars, ruleVars>>
    /\ UNCHANGED legacy_addins_total

\* the sets of overhead accounts handed in as included_accounts
IncludedAccountSets == { {}, {A_865Rent}, {A_OwnerSalary}, {A_865Rent, A_Interest} }

\* compute_legacy_overhead_addins(df, legacy_start, legacy_end, included_accounts)
ComputeLegacyOverheadAddins ==
    /\ pc = "classified"
    /\ \E legacy_start \in Dates, legacy_end \in Dates, accounts \in IncludedAccountSets :
        /\ params' = [legacy_start |-> legacy_start, legacy_end |-> legacy_end,
                      included_accounts |-> accounts]
        /\ legacy_addins_total' =
                compute_legacy_overhead_addins(df, legacy_start, legacy_end, accounts)
    /\ pc' = "addins_computed"
    /\ UNCHANGED <<ledger, cogs_prefixes, df, owner, period, monthly>>
    /\ UNCHANGED matchVars
    /\ UNCHANGED <<forecastVars, ruleVars>>

ComputeMonthlyKpis ==
    /\ pc = "classified"
    /\ \E rs \in Dates :
        /\ params' = [owner_revenue_start |-> rs]
        /\ monthly' = compute_monthly_kpis(df, rs)
    /\ pc' = "monthly"
    /\ UNCHANGED <<ledger, cogs_prefixes, df, owner, period>>
    /\ UNCHANGED matchVars
    /\ UNCHANGED <<forecastVars, ruleVars>>
    /\ UNCHANGED legacy_addins_total

\* one pass of "for qb_idx, qb_row in qb.iterrows()"
MatchIteration ==
    /\ pc = "matching"
    /\ qb_pos < Len(qb)
    /\ LET qb_idx == qb_pos + 1
           cands == Candidates(bank, qb[qb_idx], date_tolerance_days, used_bank_indices)
       IN  IF cands = <<>>
           THEN UNCHANGED <<matched_rows, used_bank_indices>>
           ELSE LET best_bank_idx == IdxMin(bank, cands, qb[qb_idx].date)
                IN  /\ matched_rows' = Append(matched_rows, MatchRecord(qb_idx, best_bank_idx))
                    /\ used_bank_indices' = used_bank_indices \cup {best_bank_idx}
    /\ qb_pos' = qb_pos + 1
    /\ UNCHANGED <<pc, qb, bank, date_tolerance_days, match_result>>
    /\ UNCHANGED <<ledger, cogs_prefixes, df, params, owner, period, monthly>>
    /\ UNCHANGED <<forecastVars, ruleVars>>
    /\ UNCHANGED legacy_addins_total

\* the loop is over: the unmatched frames are built and the MatchResult returned
MatchReturn ==
    /\ pc = "matching"
    /\ qb_pos = Len(qb)
    /\ match_result' = [matched |-> matched_rows,
                        unmatched_qb |-> UnmatchedQb(qb, matched_rows),
                        unmatched_bank |-> UnmatchedBank(bank, used_bank_indices)]
    /\ pc' = "matched"
    /\ UNCHANGED <<qb, bank, date_tolerance_days, qb_pos, matched_rows, used_bank_indices>>
    /\ UNCHANGED <<ledger, cogs_prefixes, df, params, owner, period, monthly>>
    /\ UNCHANGED <<forecastVars, ruleVars>>
    /\ UNCHANGED legacy_addins_total

\* the snapshots get_period_metrics returns for the frames of a forecast run
PeriodSnapshots ==
    { get_period_metrics(f) : f \in Tables(PreparedRows, MaxSnapshotRows) }

\* the report window's snapshot is there; add-ins, run rates and forecast follow
InitForecast ==
    /\ pc = "period"
    /\ period \in PeriodSnapshots
    /\ ledger = <<>> /\ cogs_prefixes = DefaultPrefixes /\ df = <<>>
    /\ owner = None /\ monthly = None /\ params = None
    /\ NoMatchRun
    /\ NoForecastRun
    /\ NoRuleRun
    /\ legacy_addins_total = None

\* legacy_overhead_included_total, day counts of the report window, days left
AddIns == {0, 1, 6}
RunRateDays == {10, 46, 61}
RemainingDays == {-30, 0, 46}

\* active_metrics = apply_legacy_overhead_addins(qb_pnl_metrics, total)
ApplyLegacyOverheadAddins ==
    /\ pc = "period"
    /\ \E x \in AddIns :
        /\ params' = [legacy_overhead_included_total |-> x]
        /\ adjusted' = apply_legacy_overhead_addins(period, x)
    /\ pc' = "adjusted"
    /\ UNCHANGED <<ledger, cogs_prefixes, df, owner, period, monthly, run_rates, forecast>>
    /\ UNCHANGED matchVars
    /\ UNCHANGED ruleVars
    /\ UNCHANGED legacy_addins_total

\* run_rates = calculate_run_rates(qb_pnl_metrics, days_run_rate)
CalculateRunRates ==
    /\ pc = "adjusted"
    /\ \E days \in RunRateDays :
        /\ params' = [legacy_overhead_included_total |-> params.legacy_overhead_included_total,
                      days_in_owner_revenue_period |-> days]
        /\ run_rates' = calculate_run_rates(period, days)
    /\ pc' = "run_rates"
    /\ UNCHANGED <<ledger, cogs_prefixes, df, owner, period, monthly, adjusted, forecast>>
    /\ UNCHANGED matchVars
    /\ UNCHANGED ruleVars
    /\ UNCHANGED legacy_addins_total

\* forecast, months_rem = forecast_year_1(active_metrics, run_rates, days_remaining)
ForecastYear1 ==
    /\ pc = "run_rates"
    /\ \E d \in RemainingDays :
        /\ params' = [legacy_overhead_included_total |-> params.legacy_overhead_included_total,
                      days_in_owner_revenue_period |-> params.days_in_owner_revenue_period,
                      days_remaining_in_year_1 |-> d]
        /\ forecast' = forecast_year_1(adjusted, run_rates, d)
    /\ pc' = "forecast"
    /\ UNCHANGED <<ledger, cogs_prefixes, df, owner, period, monthly, adjusted, run_rates>>
    /\ UNCHANGED matchVars
    /\ UNCHANGED ruleVars
    /\ UNCHANGED legacy_addins_total

---------------------------------------------------------------------------
(* Addback rules: parse_rule, load_rules, apply_rules_to_df *)

MaxRuleObjs == 2        \* objects of a rules file
MaxRuleRows == 2        \* rows of a frame handed to apply_rules_to_df

\* a JSON value of a "..._contains" key: a string, a list of strings, or absent
JStr(s) == [str |-> s]
JList(l) == [list |-> l]

JNum(x) == [num |-> x]

\* The value None of a list field: _as_list never returns an empty list.
NoList == <<>>

\* the non-empty stripped items of a list
RECURSIVE StrippedItems(_)
StrippedItems(l) ==
    IF l = <<>> THEN <<>>
    ELSE IF Strip(Head(l)) = <<>> THEN StrippedItems(Tail(l))
         ELSE <<Strip(Head(l))>> \o StrippedItems(Tail(l))

_as_list(v) ==
    IF v = None THEN NoList
    ELSE IF "str" \in DOMAIN v
         THEN IF Strip(v.str) = <<>> THEN NoList ELSE <<Strip(v.str)>>
         ELSE IF "list" \in DOMAIN v THEN StrippedItems(v.list)
              ELSE NoList

\* parse_rule raises ValueError for this object
RuleNameMissing(obj) == obj.name = None \/ Strip(obj.name.str) = <<>>

parse_rule(obj) ==
    [name |-> Strip(obj.name.str),
     account_contains |-> _as_list(obj.account_contains),
     name_contains |-> _as_list(obj.name_contains),
     memo_contains |-> _as_list(obj.memo_contains),
     amount |-> obj.amount,
     amount_tolerance |-> obj.amount_tolerance]

\* amounts and tolerances of a rule are held in hundredths
Hundredths == 100
DefaultTolerance == 1

T_payroll == <<"p","a","y","r","o","l","l">>
T_rule_eq == <<"r","u","l","e","=">>
T_sep == <<",", " ">>
R_weekly_payroll ==
    <<"w","e","e","k","l","y","_","p","a","y","r","o","l","l","_",
      "a","d","d","b","a","c","k","_","2","8","8","0">>
R_owner == <<"o","w","n","e","r">>
R_all == <<"a","l","l">>
R_blank == <<"b","l","a","n","k">>
R_six == <<"s","i","x">>

\* the payroll amount of the model's ledgers, for 2880.0
PayrollAmount == 3

default_rules ==
    << [name |-> R_weekly_payroll, account_contains |-> NoList, name_contains |-> NoList,
        memo_contains |-> <<T_payroll>>, amount |-> JNum(PayrollAmount),
        amount_tolerance |-> JNum(Hundredths)] >>

\* one needle of _contains_all against one cell
NeedleHolds(cell, n) ==
    LET n0 == Lower(Strip(n))
    IN  n0 = <<>> \/ Contains(Lower(cell), n0)

_contains_all(cell, needles) ==
    IF needles = NoList THEN TRUE
    ELSE \A i \in 1..Len(needles) : NeedleHolds(cell, needles[i])

\* the amount test of a rule on one row
AmountWithin(r, rule) ==
    LET tol == IF rule.amount_tolerance # None THEN rule.amount_tolerance.num
               ELSE DefaultTolerance
    IN  Abs(Abs(r.amount) - Abs(rule.amount.num)) * Hundredths <= tol

\* the mask of one rule on one row
RuleMask(r, rule, payroll_start) ==
    /\ _contains_all(r.account, rule.account_contains)
    /\ _contains_all(r.name, rule.name_contains)
    /\ _contains_all(r.memo, rule.memo_contains)
    /\ (rule.name = R_weekly_payroll => r.date >= payroll_start)
    /\ (rule.amount # None => AmountWithin(r, rule))

\* the body of the loop over the rules, for one rule
ApplyRule(out, rule, payroll_start) ==
    [i \in 1..Len(out) |->
        IF RuleMask(out[i], rule, payroll_start)
        THEN [out[i] EXCEPT
                !.sde_addback_flag = TRUE,
                !.sde_addback_reason =
                    @ \o (IF @ = <<>> THEN <<>> ELSE T_sep) \o T_rule_eq \o rule.name]
        ELSE out[i]]

RECURSIVE ApplyRulesFrom(_, _, _, _)
ApplyRulesFrom(out, rule_list, k, payroll_start) ==
    IF k > Len(rule_list) THEN out
    ELSE ApplyRulesFrom(ApplyRule(out, rule_list[k], payroll_start), rule_list, k + 1,
                        payroll_start)

apply_rules_to_df(frame, rule_list, payroll_start) ==
    ApplyRulesFrom(frame, rule_list, 1, payroll_start)

\* memo cells
M_Payroll == <<"W","e","e","k","l","y"," ","P","a","y","r","o","l","l">>
M_Invoice == <<"I","n","v","o","i","c","e">>

\* the rows of the frames handed to apply_rules_to_df
RuleRows ==
    { [date |-> d, account |-> l.account, name |-> l.name, memo |-> l.memo,
       amount |-> l.amount, sde_addback_flag |-> FALSE, sde_addback_reason |-> <<>>] :
      d \in Dates,
      l \in { [account |-> A_OwnerSalary, name |-> N_Nathan, memo |-> M_Payroll, amount |-> -3],
              [account |-> A_865Rent, name |-> N_Landlord, memo |-> <<>>, amount |-> -6],
              [account |-> A_Sales, name |-> N_Customer, memo |-> M_Invoice, amount |-> 3] } }

NoKeys ==
    [name |-> None, account_contains |-> None, name_contains |-> None,
     memo_contains |-> None, amount |-> None, amount_tolerance |-> None]

\* the objects of the rules files
RuleObjects ==
    { [NoKeys EXCEPT !.name = JStr(R_all)],
      [NoKeys EXCEPT !.name = JStr(R_blank), !.memo_contains = JStr(<<" ">>)],
      [NoKeys EXCEPT !.name = JStr(R_owner), !.name_contains = JStr(<<" ">> \o T_nathan)],
      [NoKeys EXCEPT !.name = JStr(R_six), !.amount = JNum(6)],
      [NoKeys EXCEPT !.name = JStr(R_weekly_payroll),
                     !.memo_contains = JList(<<T_payroll, <<>> >>),
                     !.amount = JNum(PayrollAmount), !.amount_tolerance = JNum(Hundredths)],
      [NoKeys EXCEPT !.memo_contains = JStr(T_payroll)] }

InitRules ==
    /\ pc = "rules_file"
    /\ ledger = <<>>
    /\ cogs_prefixes = DefaultPrefixes
    /\ df \in Tables(RuleRows, MaxRuleRows)
    /\ NoMetricsRun
    /\ NoMatchRun
    /\ NoForecastRun
    /\ rule_objs \in Tables(RuleObjects, MaxRuleObjs)
    /\ rules = <<>>
    /\ rule_out = None
    /\ legacy_addins_total = None

\* load_rules: parse_rule on every object; a ValueError ends the run
LoadRules ==
    /\ pc = "rules_file"
    /\ IF \E i \in 1..Len(rule_objs) : RuleNameMissing(rule_objs[i])
       THEN pc' = "rules_error" /\ rules' = rules
       ELSE /\ pc' = "rules_loaded"
            /\ rules' = [i \in 1..Len(rule_objs) |-> parse_rule(rule_objs[i])]
    /\ UNCHANGED <<ledger, cogs_prefixes, df, params, owner, period, monthly,
                   rule_objs, rule_out>>
    /\ UNCHANGED matchVars
    /\ UNCHANGED forecastVars
    /\ UNCHANGED legacy_addins_total

\* apply_rules_to_df(df, rules, payroll_start=...)
ApplyRulesToDf ==
    /\ pc = "rules_loaded"
    /\ \E payroll_start \in Dates :
        /\ params' = [payroll_start |-> payroll_start]
        /\ rule_out' = apply_rules_to_df(df, rules, payroll_start)
    /\ pc' = "rules_applied"
    /\ UNCHANGED <<ledger, cogs_prefixes, df, owner, period, monthly, rule_objs, rules>>
    /\ UNCHANGED matchVars
    /\ UNCHANGED forecastVars
    /\ UNCHANGED legacy_addins_total

---------------------------------------------------------------------------
(* Specifications *)

NextClassify == ClassifyTransactions \/ ClassifyAgain
SpecClassify == InitClassify /\ [][NextClassify]_vars

NextMetrics == GetPeriodMetrics \/ GetOwnerMetrics \/ ComputeMonthlyKpis
SpecMetrics == InitMetrics /\ [][NextMetrics]_vars

NextOwner == GetOwnerMetrics
SpecOwner == InitOwner /\ [][NextOwner]_vars

NextMatch == MatchIteration \/ MatchReturn
SpecMatch == InitMatch /\ [][NextMatch]_vars

NextForecast == ApplyLegacyOverheadAddins \/ CalculateRunRates \/ ForecastYear1
SpecForecast == InitForecast /\ [][NextForecast]_vars

\* custom_addback_tokens typed by the user
CustomTokenLists == { <<>>, <<N_Nathan>>, <<N_Vendor>>, <<N_Vendor, N_Landlord>> }

\* classified rows about to be handed to detect_addbacks
UnflaggedRows ==
    { classify_transactions(<<
          [date |-> 1, account |-> l.account, account_type |-> l.account_type,
           name |-> l.name, memo |-> <<>>, amount |-> a] >>, DefaultPrefixes)[1] :
        l \in LedgerLines, a \in Amounts }

InitDetect ==
    /\ pc = "to_flag"
    /\ ledger = <<>>
    /\ cogs_prefixes = DefaultPrefixes
    /\ df \in Tables(UnflaggedRows, MaxRuleRows)
    /\ NoMetricsRun
    /\ NoMatchRun
    /\ NoForecastRun
    /\ NoRuleRun
    /\ legacy_addins_total = None

\* df = detect_addbacks(df, custom_tokens=custom_addback_tokens)
DetectAddbacks ==
    /\ pc = "to_flag"
    /\ \E custom_tokens \in CustomTokenLists :
        /\ params' = [custom_tokens |-> custom_tokens]
        /\ df' = detect_addbacks(df, custom_tokens)
    /\ pc' = "flagged"
    /\ UNCHANGED <<ledger, cogs_prefixes, owner, period, monthly>>
    /\ UNCHANGED matchVars
    /\ UNCHANGED <<forecastVars, ruleVars>>
    /\ UNCHANGED legacy_addins_total

\* apply_rules_to_df applied to its own output with the same rules
ApplyRulesAgain ==
    /\ pc = "rules_applied"
    /\ rule_out' = apply_rules_to_df(rule_out, rules, params.payroll_start)
    /\ pc' = "rules_reapplied"
    /\ UNCHANGED <<ledger, cogs_prefixes, df, params, owner, period, monthly,
                   rule_objs, rules>>
    /\ UNCHANGED matchVars
    /\ UNCHANGED forecastVars
    /\ UNCHANGED legacy_addins_total

InitReasons == InitDetect \/ InitRules
NextReasons == DetectAddbacks \/ LoadRules \/ ApplyRulesToDf \/ ApplyRulesAgain
SpecReasons == InitReasons /\ [][NextReasons]_vars

NextOverrides == GetOwnerMetricsOverrides
SpecOverrides == InitOwner /\ [][NextOverrides]_vars

NextLegacy == GetOwnerMetrics
SpecLegacy == InitLegacy /\ [][NextLegacy]_vars

NextAddins == ComputeLegacyOverheadAddins
SpecAddins == InitMetrics /\ [][NextAddins]_vars

NextMonthly == ComputeMonthlyKpis
SpecMonthly == InitMonthly /\ [][NextMonthly]_vars

NextRules == LoadRules \/ ApplyRulesToDf
SpecRules == InitRules /\ [][NextRules]_vars

\* every argument the two signatures accept: an int tolerance of either sign,
\* and the two dates of the owner period in either order
AnyTolerances == Tolerances \cup {-1}

InitMatchAny ==
    /\ pc = "matching"
    /\ qb \in Tables(MatchRows, MaxQbRows)
    /\ bank \in Tables(MatchRows, MaxBankRows)
    /\ date_tolerance_days \in AnyTolerances
    /\ qb_pos = 0
    /\ matched_rows = <<>>
    /\ used_bank_indices = {}
    /\ match_result = None
    /\ ledger = <<>> /\ cogs_prefixes = {} /\ df = <<>>
    /\ NoMetricsRun
    /\ NoForecastRun
    /\ NoRuleRun
    /\ legacy_addins_total = None

InitConfig == InitMatchAny \/ InitOwner
NextConfig == MatchIteration \/ MatchReturn \/ GetOwnerMetrics
SpecConfig == InitConfig /\ [][NextConfig]_vars

Init == InitClassify \/ InitMetrics \/ InitOwner \/ InitMatchAny \/ InitForecast \/ InitRules
            \/ InitMonthly \/ InitDetect \/ InitLegacy
Next == NextClassify \/ NextMetrics \/ NextMatch \/ NextForecast \/ NextRules
            \/ NextReasons \/ NextOverrides \/ NextAddins
Spec == Init /\ [][Next]_vars

---------------------------------------------------------------------------
(* Classification claims *)

FlagCount(r) ==
    Cardinality({f \in {"is_revenue", "is_cogs", "is_overhead", "is_other_expense"} : r[f]})

\* C1: after classify_transactions, for every row and every cogs_prefixes set, at
\* most one of is_revenue, is_cogs, is_overhead, is_other_expense is true.
C1_AtMostOneFlag ==
    pc = "classified_only" => \A i \in 1..Len(df) : FlagCount(df[i]) <= 1

\* a classified ledger with a row that two masks select (account_type "Other
\* Income": the revenue mask and the other-expense mask) and that ends with one flag
C1_Witness ==
    /\ pc = "classified_only"
    /\ \E i \in 1..Len(df) :
        /\ Contains(Lower(df[i].account_type), T_other_income)
        /\ df[i].is_revenue
        /\ FlagCount(df[i]) = 1

---------------------------------------------------------------------------
(* Metrics claims *)

\* the three formulas as the claim states them
StatedFormulas(m) ==
    /\ m.gross_profit = FSub(m.revenue, m.cogs)
    /\ m.net_profit = FSub(FSub(m.gross_profit, m.overhead), m.other_expense)
    /\ m.sde = FAdd(m.net_profit, m.addbacks)

\* C2 as stated: every snapshot of get_period_metrics and get_owner_metrics and
\* every month row of compute_monthly_kpis satisfies gross_profit = revenue - cogs,
\* net_profit = gross_profit - overhead - other_expense, sde = net_profit + addbacks.
C2_Original ==
    /\ pc = "period" => StatedFormulas(period)
    /\ pc = "owner" => StatedFormulas(owner)
    /\ pc = "monthly" => \A k \in 1..Len(monthly) : StatedFormulas(monthly[k])

Exact(x) == Fl(x) = x

\* the formulas a period or owner snapshot satisfies
SnapshotFormulas(m) ==
    /\ m.gross_profit = FSub(m.revenue, m.cogs)
    /\ m.net_profit = FSub(m.revenue, FAdd(FAdd(m.cogs, m.overhead), m.other_expense))
    /\ m.sde = FAdd(m.net_profit, m.addbacks)
    /\ ( /\ Exact(m.cogs + m.overhead)
         /\ Exact(m.cogs + m.overhead + m.other_expense)
         /\ Exact(m.revenue - m.cogs)
         /\ Exact(m.revenue - m.cogs - m.overhead) )
       => m.net_profit = FSub(FSub(m.gross_profit, m.overhead), m.other_expense)

\* C2 (amended): gross_profit = revenue - cogs and sde = net_profit + addbacks in
\* every snapshot and month row; a month row has net_profit = gross_profit -
\* overhead - other_expense; a period or owner snapshot has net_profit = revenue -
\* (cogs + overhead + other_expense), which is gross_profit - overhead -
\* other_expense whenever the intermediate sums and differences are exact.
C2_Formulas ==
    /\ pc = "period" => SnapshotFormulas(period)
    /\ pc = "owner" => SnapshotFormulas(owner)
    /\ pc = "monthly" => \A k \in 1..Len(monthly) : StatedFormulas(monthly[k])

\* a period snapshot with all four magnitudes non-zero and addbacks
C2_Witness ==
    /\ pc = "period"
    /\ period.revenue > 0 /\ period.cogs > 0 /\ period.overhead > 0
    /\ period.addbacks > 0
    /\ period.net_profit # period.revenue

---------------------------------------------------------------------------
(* Reconciliation claims *)

\* C3: every ledger row and every bank row ends in exactly one of matched /
\* unmatched: len(matched) + len(unmatched_qb) = number of ledger rows,
\* len(matched) + len(unmatched_bank) = number of bank rows, no bank row is
\* consumed by two ledger rows and no ledger row is matched twice.
C3_Partition ==
    pc = "matched" =>
        LET m == match_result.matched IN
        /\ Len(m) + Len(match_result.unmatched_qb) = Len(qb)
        /\ Len(m) + Len(match_result.unmatched_bank) = Len(bank)
        /\ \A j, k \in 1..Len(m) :
            j # k => m[j].bank_index # m[k].bank_index /\ m[j].qb_index # m[k].qb_index
        /\ \A i \in 1..Len(qb) :
            (\E k \in 1..Len(m) : m[k].qb_index = i)
                # (\E k \in 1..Len(match_result.unmatched_qb) :
                        match_result.unmatched_qb[k] = i)
        /\ \A i \in 1..Len(bank) :
            (\E k \in 1..Len(m) : m[k].bank_index = i)
                # (\E k \in 1..Len(match_result.unmatched_bank) :
                        match_result.unmatched_bank[k] = i)

\* bank row j suits ledger row i: equal rounded amounts, dates within the tolerance
Suits(i, j) ==
    /\ Round2(qb[i].amount) = Round2(bank[j].amount)
    /\ DateDiff(bank[j].date, qb[i].date) <= date_tolerance_days

\* two ledger rows competed for one bank row: one got it, the other stays unmatched
C3_Witness ==
    /\ pc = "matched"
    /\ \E k \in 1..Len(match_result.matched) :
       \E i \in 1..Len(qb) :
        /\ \E u \in 1..Len(match_result.unmatched_qb) : match_result.unmatched_qb[u] = i
        /\ Suits(i, match_result.matched[k].bank_index)

ConsumedBefore(k) == {matched_rows[j].bank_index : j \in 1..(k-1)}

\* C5: a ledger row with several unconsumed bank candidates consumes the one with
\* the smallest absolute date difference, among equally distant ones the first in
\* bank input order; ledger rows are processed in input order.
C5_ClosestFirst ==
    /\ \A k \in 1..Len(matched_rows) :
        LET m == matched_rows[k] IN
        /\ Suits(m.qb_index, m.bank_index)
        /\ \A j \in 1..Len(bank) :
            (Suits(m.qb_index, j) /\ j \notin ConsumedBefore(k)) =>
                \/ DateDiff(bank[j].date, m.qb_date) > DateDiff(m.bank_date, m.qb_date)
                \/ /\ DateDiff(bank[j].date, m.qb_date) = DateDiff(m.bank_date, m.qb_date)
                   /\ m.bank_index <= j
    /\ \A j, k \in 1..Len(matched_rows) :
        j < k => matched_rows[j].qb_index < matched_rows[k].qb_index
    /\ \A k \in 1..Len(matched_rows) : matched_rows[k].qb_index <= qb_pos

\* a ledger row took the closer of two candidates although it comes second in the
\* bank input, and the farther one is left unmatched
C5_Witness ==
    /\ pc = "matched"
    /\ \E k \in 1..Len(matched_rows) :
       \E j \in 1..Len(bank) :
        LET m == matched_rows[k] IN
        /\ j < m.bank_index
        /\ Suits(m.qb_index, j)
        /\ j \notin used_bank_indices
        /\ DateDiff(bank[j].date, m.qb_date) > DateDiff(m.bank_date, m.qb_date)

---------------------------------------------------------------------------
(* Owner-metrics claims *)

\* the frame without the rows whose positions are in I
Without(frame, I) ==
    LET keep == SelectSeq([i \in 1..Len(frame) |-> i], LAMBDA i : i \notin I)
    IN  [k \in 1..Len(keep) |-> frame[keep[k]]]

\* the row is dated in the steady window [owner_revenue_start, current_date]
Steady(r) ==
    /\ r.date >= params.owner_revenue_start
    /\ r.date >= params.owner_period_start
    /\ r.date <= params.current_date

\* the row is dated in the legacy window [owner_period_start, owner_revenue_start)
Legacy(r) ==
    /\ r.date >= params.owner_period_start
    /\ r.date < params.owner_revenue_start
    /\ r.date <= params.current_date

\* the signed sum of the rows of df that satisfy Mask
RawSum(Mask(_)) ==
    LET rows == SelectSeq(df, Mask)
    IN  FSum([i \in 1..Len(rows) |-> rows[i].amount])

\* the positions of the rows of df that satisfy Mask
Positions(Mask(_)) == {i \in 1..Len(df) : Mask(df[i])}

\* the metrics named in keys are the same for df and for df changed in any of
\* these ways: any set of the rows at positions I removed, or the amount of one
\* of them replaced
Unaffected(I, keys) ==
    /\ \A J \in SUBSET I :
        LET m == OwnerMetricsOf(Without(df, J), params)
        IN  \A k \in keys : m[k] = owner[k]
    /\ \A i \in I : \A a \in Amounts :
        LET m == OwnerMetricsOf([df EXCEPT ![i].amount = a], params)
        IN  \A k \in keys : m[k] = owner[k]

\* C6: get_owner_metrics revenue is the magnitude of the summed amounts of the
\* is_revenue rows dated in [owner_revenue_start, current_date]; revenue rows dated
\* before owner_revenue_start or outside [owner_period_start, current_date] never
\* change revenue, gross_profit or net_profit.
C6_RevenueSteadyOnly ==
    pc = "owner" =>
        /\ owner.revenue = Abs(RawSum(LAMBDA r : r.is_revenue /\ Steady(r)))
        /\ Unaffected(Positions(LAMBDA r : r.is_revenue /\ ~Steady(r)),
                      {"revenue", "gross_profit", "net_profit"})

\* owner metrics of a frame with a legacy-window revenue row and a counted one
C6_Witness ==
    /\ pc = "owner"
    /\ \E i \in 1..Len(df) : df[i].is_revenue /\ Legacy(df[i])
    /\ \E i \in 1..Len(df) : df[i].is_revenue /\ Steady(df[i])
    /\ owner.revenue > 0

\* C7: headline cogs is the magnitude of the steady-window is_cogs rows only and
\* legacy_cogs the magnitude of the legacy-window is_cogs rows only; adding,
\* removing or changing legacy-window COGS rows never changes cogs, gross_profit
\* or net_profit.
C7_CogsSteadyOnly ==
    pc = "owner" =>
        /\ owner.cogs = Abs(RawSum(LAMBDA r : r.is_cogs /\ Steady(r)))
        /\ owner.legacy_cogs = Abs(RawSum(LAMBDA r : r.is_cogs /\ Legacy(r)))
        /\ Unaffected(Positions(LAMBDA r : r.is_cogs /\ Legacy(r)),
                      {"cogs", "gross_profit", "net_profit"})

\* owner metrics of a frame with a legacy-window COGS row and a steady-window one
C7_Witness ==
    /\ pc = "owner"
    /\ \E i \in 1..Len(df) : df[i].is_cogs /\ Legacy(df[i])
    /\ \E i \in 1..Len(df) : df[i].is_cogs /\ Steady(df[i])
    /\ owner.cogs > 0 /\ owner.legacy_cogs > 0

\* the row's three-digit account code is in the job-cost prefix set of the call
JobCost(r) == account_code_prefix(r.account) \in params.legacy_job_cost_prefixes

IncludedLegacyOverhead(r) ==
    /\ r.is_overhead
    /\ Legacy(r)
    /\ params.exclude_legacy_july_job_costs => ~JobCost(r)

C10_OtherExpenseSteadyOnly ==
    pc = "owner" =>
        /\ owner.other_expense = Abs(RawSum(LAMBDA r : r.is_other_expense /\ Steady(r)))
        /\ Unaffected(Positions(LAMBDA r : r.is_other_expense /\ Legacy(r)),
                      {"other_expense", "net_profit"})

\* a legacy-window other-expense row without a job-cost prefix (so no carve-out
\* would drop it) beside a steady-window one
C10_Witness ==
    /\ pc = "owner"
    /\ \E i \in 1..Len(df) :
        df[i].is_other_expense /\ Legacy(df[i]) /\ ~JobCost(df[i])
    /\ \E i \in 1..Len(df) : df[i].is_other_expense /\ Steady(df[i])
    /\ owner.other_expense > 0

---------------------------------------------------------------------------
(* Addback and sign claims *)

\* the row is dated in [owner_period_start, current_date]
InOwnerPeriod(r) ==
    r.date >= params.owner_period_start /\ r.date <= params.current_date

\* C11: get_owner_metrics computes addbacks over every addback-flagged row dated
\* in [owner_period_start, current_date], legacy window included: a flagged row
\* dated before owner_revenue_start contributes to addbacks and sde exactly as a
\* steady-window row would (re-dating it anywhere in the period leaves addbacks
\* unchanged), also when its own cost is excluded from net_profit.
C11_AddbacksWholePeriod ==
    pc = "owner" =>
        /\ owner.addbacks =
            AddbackTotal(AmountColumn(SelectSeq(df,
                LAMBDA r : r.sde_addback_flag /\ InOwnerPeriod(r))))
        /\ owner.sde = FAdd(owner.net_profit, owner.addbacks)
        /\ \A i \in 1..Len(df) : \A d \in Dates :
            (df[i].sde_addback_flag /\ InOwnerPeriod(df[i])
                /\ d >= params.owner_period_start /\ d <= params.current_date)
            => OwnerMetricsOf([df EXCEPT ![i].date = d], params).addbacks = owner.addbacks

\* a flagged legacy-window overhead row with a job-cost prefix, exclusion on: its
\* cost is kept out of overhead and net_profit and it is added back all the same
C11_Witness ==
    /\ pc = "owner"
    /\ params.exclude_legacy_july_job_costs
    /\ \E i \in 1..Len(df) :
        /\ df[i].sde_addback_flag /\ df[i].is_overhead
        /\ Legacy(df[i]) /\ JobCost(df[i])
    /\ owner.overhead = 0
    /\ owner.addbacks > 0
    /\ owner.sde = owner.addbacks

\* the flagged amounts of the rows a snapshot is computed from, in row order
FlaggedInPeriod == AmountColumn(SelectSeq(df, LAMBDA r : r.sde_addback_flag))
FlaggedInOwnerPeriod ==
    AmountColumn(SelectSeq(df, LAMBDA r : r.sde_addback_flag /\ InOwnerPeriod(r)))

\* addbacks follows the sign preference over the flagged amounts
SignPreference(addbacks, flagged) ==
    /\ (\E i \in 1..Len(flagged) : flagged[i] > 0)
        => addbacks = FSum(SelectSeq(flagged, LAMBDA x : x > 0))
    /\ (\A i \in 1..Len(flagged) : flagged[i] <= 0)
        => addbacks = -FSum(SelectSeq(flagged, LAMBDA x : x < 0))
    /\ addbacks >= 0

\* C12: in get_period_metrics and get_owner_metrics, if at least one flagged row of
\* the window has a positive amount, addbacks is the sum of the positive flagged
\* amounts only and a negative flagged row is ignored (removing it changes
\* nothing); otherwise addbacks is the negated sum of the negative flagged
\* amounts; addbacks is never negative.
C12_AddbackSignPreference ==
    /\ pc = "period" =>
        /\ SignPreference(period.addbacks, FlaggedInPeriod)
        /\ \A i \in 1..Len(df) :
            (df[i].sde_addback_flag /\ df[i].amount < 0 /\ period.addbacks > 0
                /\ \E j \in 1..Len(df) : df[j].sde_addback_flag /\ df[j].amount > 0)
            => get_period_metrics(Without(df, {i})).addbacks = period.addbacks
    /\ pc = "owner" =>
        /\ SignPreference(owner.addbacks, FlaggedInOwnerPeriod)
        /\ \A i \in 1..Len(df) :
            (df[i].sde_addback_flag /\ df[i].amount < 0
                /\ \E j \in 1..Len(df) :
                    df[j].sde_addback_flag /\ df[j].amount > 0 /\ InOwnerPeriod(df[j]))
            => OwnerMetricsOf(Without(df, {i}), params).addbacks = owner.addbacks

\* a period snapshot over positive and negative flagged rows whose addbacks is
\* not the netted sum
C12_Witness ==
    /\ pc = "period"
    /\ \E i \in 1..Len(FlaggedInPeriod) : FlaggedInPeriod[i] > 0
    /\ \E i \in 1..Len(FlaggedInPeriod) : FlaggedInPeriod[i] < 0
    /\ period.addbacks # Abs(FSum(FlaggedInPeriod))

\* a row that is an expense of any of the three kinds
IsExpense(r) == r.is_overhead \/ r.is_other_expense \/ r.is_cogs

\* C13: revenue, cogs, overhead, other_expense and the legacy_* sub-totals are each
\* the absolute value of the signed sum of the bucket's rows (sum first, then
\* flip), not the sum of per-row absolute values, and so are non-negative for any
\* mix of positive and negative rows, in get_period_metrics and get_owner_metrics.
C13_SumThenFlip ==
    /\ pc = "period" =>
        /\ period.revenue = Abs(RawSum(LAMBDA r : r.is_revenue))
        /\ period.cogs = Abs(RawSum(LAMBDA r : r.is_cogs))
        /\ period.overhead = Abs(RawSum(LAMBDA r : r.is_overhead))
        /\ period.other_expense = Abs(RawSum(LAMBDA r : r.is_other_expense))
        /\ \A k \in {"revenue", "cogs", "overhead", "other_expense"} : period[k] >= 0
    /\ pc = "owner" =>
        /\ owner.legacy_cogs = Abs(RawSum(LAMBDA r : r.is_cogs /\ Legacy(r)))
        /\ owner.legacy_july_total_expense =
            Abs(RawSum(LAMBDA r : IsExpense(r) /\ Legacy(r)))
        /\ owner.legacy_july_excluded_job_cost =
            Abs(RawSum(LAMBDA r : IsExpense(r) /\ Legacy(r) /\ JobCost(r)))
        /\ owner.legacy_july_included_overhead = Abs(RawSum(IncludedLegacyOverhead))
        /\ owner.revenue = Abs(RawSum(LAMBDA r : r.is_revenue /\ Steady(r)))
        /\ owner.cogs = Abs(RawSum(LAMBDA r : r.is_cogs /\ Steady(r)))
        /\ owner.other_expense = Abs(RawSum(LAMBDA r : r.is_other_expense /\ Steady(r)))
        /\ owner.overhead =
            Abs(FAdd(RawSum(LAMBDA r : r.is_overhead /\ Steady(r)),
                     RawSum(IncludedLegacyOverhead)))
        /\ \A k \in {"revenue", "cogs", "legacy_cogs", "overhead", "other_expense",
                     "legacy_july_total_expense", "legacy_july_excluded_job_cost",
                     "legacy_july_included_overhead"} : owner[k] >= 0

\* a period snapshot whose overhead rows are of both signs: the bucket is the
\* magnitude of their net, less than the sum of their magnitudes
C13_Witness ==
    /\ pc = "period"
    /\ \E i, j \in 1..Len(df) :
        /\ df[i].is_overhead /\ df[i].amount > 0
        /\ df[j].is_overhead /\ df[j].amount < 0
    /\ period.overhead > 0
    /\ period.overhead <
        FSum(AmountColumn_Magnitudes(SelectSeq(df, LAMBDA r : r.is_overhead)))

---------------------------------------------------------------------------
(* Add-in, run-rate and forecast claims *)

\* the keys the add-in is said to leave alone
CarriedKeys == {"revenue", "cogs", "other_expense", "addbacks"}

\* C14 as stated: on a snapshot m that satisfies the metric formulas,
\* apply_legacy_overhead_addins(m, x) returns overhead = m.overhead + x,
\* net_profit = m.net_profit - x, sde = m.sde - x, revenue, cogs, other_expense and
\* addbacks unchanged, and with x = 0 a snapshot equal to m.
C14_Original ==
    (pc = "adjusted" /\ StatedFormulas(period) /\ SnapshotFormulas(period)) =>
        LET x == params.legacy_overhead_included_total
        IN  /\ adjusted.overhead = FAdd(period.overhead, x)
            /\ adjusted.net_profit = FSub(period.net_profit, x)
            /\ adjusted.sde = FSub(period.sde, x)
            /\ \A k \in CarriedKeys : adjusted[k] = period[k]
            /\ x = 0 => adjusted = period

\* no operation of the add-in rounds, and m satisfies the formulas without rounding
AddInExact(m, x) ==
    /\ m.net_profit = m.revenue - m.cogs - m.overhead - m.other_expense
    /\ m.sde = m.net_profit + m.addbacks
    /\ Exact(m.overhead + x)
    /\ Exact(m.cogs + m.overhead + x)
    /\ Exact(m.cogs + m.overhead + x + m.other_expense)
    /\ Exact(m.net_profit - x)
    /\ Exact(m.sde - x)

\* what the add-in returns for the snapshot of the run
AddInResult ==
    LET x == params.legacy_overhead_included_total
    IN  /\ x = 0 => adjusted = period
        /\ x # 0 =>
            /\ DOMAIN adjusted = DOMAIN period \cup {"legacy_overhead_included"}
            /\ adjusted.legacy_overhead_included = x
            /\ adjusted.overhead = FAdd(period.overhead, x)
            /\ adjusted.gross_profit = FSub(period.revenue, period.cogs)
            /\ adjusted.net_profit =
                FSub(period.revenue,
                     FAdd(FAdd(period.cogs, adjusted.overhead), period.other_expense))
            /\ adjusted.sde = FAdd(adjusted.net_profit, period.addbacks)
            /\ \A k \in CarriedKeys : adjusted[k] = period[k]
        /\ AddInExact(period, x) =>
            /\ adjusted.overhead = period.overhead + x
            /\ adjusted.net_profit = period.net_profit - x
            /\ adjusted.sde = period.sde - x

\* C14 (amended): apply_legacy_overhead_addins(m, x) with x # 0 returns overhead =
\* m.overhead + x, gross_profit = revenue - cogs, net_profit = revenue - (cogs +
\* overhead + other_expense) with the new overhead, sde = that net_profit +
\* addbacks, and the added key legacy_overhead_included = x, with revenue, cogs,
\* other_expense and addbacks unchanged; net_profit = m.net_profit - x and sde =
\* m.sde - x when no operation rounds; with x = 0 it returns a snapshot equal to m
\* key for key; the dict it was given is never modified.
C14_AddIn ==
    /\ [](pc = "adjusted" => AddInResult)
    /\ [][pc' = "adjusted" => period' = period]_vars

\* a non-zero add-in on a snapshot with revenue: overhead goes up, net profit down
C14_Witness ==
    /\ pc = "adjusted"
    /\ params.legacy_overhead_included_total # 0
    /\ period.revenue > 0
    /\ adjusted.overhead > period.overhead
    /\ adjusted.net_profit < period.net_profit
    /\ adjusted.sde < period.sde

\* r is n / d up to the rounding of two floating-point operations
WithinRounding(r, n, d) ==
    Abs(r * d - n) * 2^MantBits <= 3 * Abs(n) + d * 2^MantBits

\* the run rate of every key is value / days * 30.4375
RunRateFormula ==
    \A k \in DOMAIN period :
        WithinRounding(run_rates[k], period[k] * AvgMonthNum,
                       AvgMonthDen * params.days_in_owner_revenue_period)

\* C15 as stated: calculate_run_rates(metrics, days) returns, for every key and
\* every positive day-count, metrics[key] / days * 30.4375, windows shorter than
\* one average month included.
C15_Original == pc = "run_rates" => RunRateFormula

\* C15 for the windows of at least one average month: there the formula holds
C15_LongWindows ==
    (pc = "run_rates"
        /\ params.days_in_owner_revenue_period * AvgMonthDen >= AvgMonthNum)
    => RunRateFormula

\* C16: forecast_year_1(ytd, rates, d) with d <= 0 returns a forecast equal to ytd
\* on every key, for any run rates: remaining time is floored at zero and never
\* subtracts from the year-to-date figures.
C16_NoRemainingTime ==
    (pc = "forecast" /\ params.days_remaining_in_year_1 <= 0) =>
        /\ forecast.months_remaining = 0
        /\ DOMAIN forecast.year_1_forecast = DOMAIN adjusted
        /\ \A k \in DOMAIN adjusted : forecast.year_1_forecast[k] = adjusted[k]

\* a forecast made after the year end from run rates that are not all zero
C16_Witness ==
    /\ pc = "forecast"
    /\ params.days_remaining_in_year_1 < 0
    /\ run_rates.revenue > 0 /\ run_rates.net_profit < 0
    /\ forecast.year_1_forecast = adjusted

---------------------------------------------------------------------------
(* Rule and configuration claims *)

HasPredicate(rule) ==
    \/ rule.account_contains # NoList
    \/ rule.name_contains # NoList
    \/ rule.memo_contains # NoList
    \/ rule.amount # None

\* C17: a rule with no account_contains, name_contains, memo_contains or amount
\* predicate is rejected: apply_rules_to_df never returns a frame for a list
\* holding such a rule, so no such rule flags every row.
C17_Original ==
    pc = "rules_applied" => \A i \in 1..Len(rules) : HasPredicate(rules[i])

\* What the code does with such a rule: the frame comes back with every row flagged.
C17_FlagsEveryRow ==
    (pc = "rules_applied" /\ \E i \in 1..Len(rules) : ~HasPredicate(rules[i]))
        => \A j \in 1..Len(rule_out) : rule_out[j].sde_addback_flag

\* A run in which a predicate-less rule flagged a row no other rule selects.
C17_Reached ==
    /\ pc = "rules_applied"
    /\ Len(rules) = 1 /\ ~HasPredicate(rules[1])
    /\ \E j \in 1..Len(rule_out) :
        rule_out[j].sde_addback_flag /\ rule_out[j].account = A_Sales

\* C18: match_qb_and_bank with a negative date_tolerance_days, and
\* get_owner_metrics with current_date before owner_period_start, raise a
\* configuration error: neither call returns a result for such arguments.
C18_Original ==
    /\ pc = "matched" => date_tolerance_days >= 0
    /\ pc = "owner" => params.current_date >= params.owner_period_start

\* What the code returns for a negative tolerance: a result with nothing matched.
C18_NothingMatched ==
    (pc = "matched" /\ date_tolerance_days < 0) =>
        /\ match_result.matched = <<>>
        /\ Len(match_result.unmatched_qb) = Len(qb)
        /\ Len(match_result.unmatched_bank) = Len(bank)

\* What the code returns for an owner period that ends before it starts: all zeros.
C18_AllZero ==
    (pc = "owner" /\ params.current_date < params.owner_period_start) =>
        \A k \in {"revenue", "cogs", "overhead", "other_expense", "net_profit", "sde"} :
            owner[k] = 0

---------------------------------------------------------------------------
(* Unclassified rows and re-classification claims *)

\* an account_type cell that names no income, expense or cost of goods sold;
\* "nan" is what astype(str) makes of a missing value
Unrecognised(account_type) ==
    LET atype == Lower(account_type)
    IN  /\ ~Contains(atype, T_income)
        /\ ~Contains(atype, T_expense)
        /\ ~Contains(atype, T_cost_of_goods_sold)
        /\ ~Contains(atype, T_cogs)

\* C19: every row whose account_type is empty, missing or not recognised as
\* income, expense or cost of goods sold is classified "Unclassified" with all
\* four flags false, never "Overhead" or "Other". (Rows whose account text names
\* income are left out: the account makes them Revenue.)
C19_Original ==
    pc = "classified_only" =>
        \A i \in 1..Len(df) :
            (Unrecognised(df[i].account_type) /\ ~Contains(Lower(df[i].account), T_income))
                => df[i].classification = "Unclassified" /\ FlagCount(df[i]) = 0

\* What the code gives such rows: no flag, "Unclassified" for the empty cell
\* only and "Other" for every other text.
C19_OtherUnlessEmpty ==
    pc = "classified_only" =>
        \A i \in 1..Len(df) :
            (Unrecognised(df[i].account_type) /\ ~Contains(Lower(df[i].account), T_income))
                => /\ FlagCount(df[i]) = 0
                   /\ df[i].classification =
                        (IF df[i].account_type = <<>> THEN "Unclassified" ELSE "Other")

ClassifierColumns ==
    {"is_revenue", "is_cogs", "is_overhead", "is_other_expense",
     "account_prefix", "classification"}

SameColumns(a, b) == \A k \in ClassifierColumns : a[k] = b[k]

\* C20: classify_transactions applied to its own output with the same
\* cogs_prefixes leaves the four flags, account_prefix and classification of
\* every row as they were, and whatever the prefixes of the second call, the six
\* columns are those that account_type, account and these prefixes give, whatever
\* flags the input carried.
C20_Idempotent ==
    /\ [](pc = "classified_twice" =>
            /\ Len(df) = Len(ledger)
            /\ \A i \in 1..Len(df) :
                SameColumns(df[i], ClassifyRow(ledger[i].account_type, ledger[i].account,
                                                params.cogs_prefixes)))
    /\ [][(pc' = "classified_twice" /\ params'.cogs_prefixes = cogs_prefixes) =>
            /\ Len(df') = Len(df)
            /\ \A i \in 1..Len(df) : SameColumns(df'[i], df[i])]_vars

\* a ledger classified twice with the same prefixes whose row is COGS by its
\* account prefix, and one classified again without prefixes whose row carried
\* is_cogs into the second call and left it as overhead
C20_Witness ==
    /\ pc = "classified_twice"
    /\ \E i \in 1..Len(df) :
        /\ df[i].account_prefix = P705
        /\ Lower(df[i].account_type) = T_expense
        /\ \/ params.cogs_prefixes = cogs_prefixes /\ df[i].is_cogs
           \/ params.cogs_prefixes = {} /\ cogs_prefixes = DefaultPrefixes /\ df[i].is_overhead

---------------------------------------------------------------------------
(* Monthly KPI claims *)

Undefined(v) == v = None \/ v = NaN

MarginColumns ==
    {"gross_margin_pct", "net_margin_pct", "sde_margin_pct", "overhead_pct", "cogs_pct"}

MomMetrics == {"revenue", "net_profit", "sde"}

MomPctOf(row, metric) ==
    IF metric = "revenue" THEN row.revenue_mom_pct
    ELSE IF metric = "net_profit" THEN row.net_profit_mom_pct
    ELSE row.sde_mom_pct

\* C21: in the table of compute_monthly_kpis every margin of a month whose
\* revenue is zero is undefined (None or NaN), and so is every month-over-month
\* percent change of the first month and of a month whose prior value is zero.
C21_UndefinedRatios ==
    pc = "monthly" =>
        \A k \in 1..Len(monthly) :
            /\ monthly[k].revenue = 0 =>
                    \A c \in MarginColumns : Undefined(monthly[k][c])
            /\ \A metric \in MomMetrics :
                    (k = 1 \/ (k > 1 /\ monthly[k-1][metric] = 0))
                        => Undefined(MomPctOf(monthly[k], metric))

\* a table with a month without revenue after a month with revenue, and a table
\* whose second month follows a month without revenue
C21_Witness ==
    /\ pc = "monthly"
    /\ Len(monthly) = 2
    /\ \/ monthly[1].revenue > 0 /\ monthly[2].revenue = 0
           /\ Undefined(monthly[2].gross_margin_pct)
       \/ monthly[1].revenue = 0 /\ monthly[2].revenue > 0
           /\ Undefined(monthly[2].revenue_mom_pct)

---------------------------------------------------------------------------
(* Reason trail claims *)

NoRepeat(entries) ==
    \A i, j \in 1..Len(entries) : i # j => entries[i] # entries[j]

\* the entries of a reason text, which ", " separates
RECURSIVE Entries(_)
Entries(text) ==
    IF text = <<>> THEN <<>>
    ELSE IF \E i \in 1..Len(text) : OccursAt(text, T_sep, i)
         THEN LET i == CHOOSE i \in 1..Len(text) :
                        /\ OccursAt(text, T_sep, i)
                        /\ \A j \in 1..(i-1) : ~OccursAt(text, T_sep, j)
              IN  <<SubSeq(text, 1, i - 1)>> \o Entries(SubSeq(text, i + 2, Len(text)))
         ELSE <<text>>

\* C22: after detect_addbacks with any custom tokens, and after apply_rules_to_df
\* applied once or again to its own output, no "token=..." and no "rule=..." entry
\* stands more than once in the sde_addback_reason of a row.
C22_Original ==
    /\ pc = "flagged" =>
            \A i \in 1..Len(df) : NoRepeat(df[i].sde_addback_reason)
    /\ pc \in {"rules_applied", "rules_reapplied"} =>
            \A j \in 1..Len(rule_out) : NoRepeat(Entries(rule_out[j].sde_addback_reason))

\* What the code does with a custom token equal to a built-in one: the entry
\* stands twice in the trail of every row the token hits.
C22_TokenTwice ==
    (pc = "flagged" /\ params.custom_tokens = <<N_Nathan>>) =>
        \A i \in 1..Len(df) :
            df[i].name = N_Nathan => df[i].sde_addback_reason = <<T_nathan, T_nathan>>

\* What the code does on re-application: every entry of the first run stands twice.
C22_RuleTwice ==
    pc = "rules_reapplied" =>
        \A j \in 1..Len(rule_out) :
            LET e == Entries(rule_out[j].sde_addback_reason)
            IN  \A i \in 1..Len(e) : \E k \in 1..Len(e) : k # i /\ e[k] = e[i]

---------------------------------------------------------------------------
(* Owner addback override and legacy sub-total claims *)

\* the snapshot of the same call without overrides
WithoutOverrides ==
    OwnerMetricsOf(df, [params EXCEPT !.addback_account_overrides = {}])

OverrideUntouched ==
    {"revenue", "cogs", "legacy_cogs", "overhead", "other_expense", "gross_profit",
     "net_profit", "legacy_july_total_expense", "legacy_july_excluded_job_cost",
     "legacy_july_included_overhead"}

\* amounts of the rows of the owner period that only the overrides select
OverriddenOnly ==
    LET rows == SelectSeq(df, LAMBDA r : /\ InOwnerPeriod(r) /\ ~r.sde_addback_flag
                                         /\ r.account \in params.addback_account_overrides)
    IN  [i \in 1..Len(rows) |-> rows[i].amount]

\* amounts of the rows of the owner period that are flagged or overridden
FlaggedOrOverridden ==
    LET rows == SelectSeq(df, LAMBDA r : /\ InOwnerPeriod(r)
                                         /\ \/ r.sde_addback_flag
                                            \/ r.account \in params.addback_account_overrides)
    IN  [i \in 1..Len(rows) |-> rows[i].amount]

\* the sign-preferred total of a list of amounts
PreferredTotal(amounts) ==
    IF \E i \in 1..Len(amounts) : amounts[i] > 0
    THEN FSum(SelectSeq(amounts, LAMBDA x : x > 0))
    ELSE -FSum(SelectSeq(amounts, LAMBDA x : x < 0))

\* C23 as stated: the overrides leave the other figures alone, and addbacks and
\* sde rise by the addback amount of the rows the overrides add.
C23_Original ==
    pc = "owner_overrides" =>
        /\ \A k \in OverrideUntouched : owner[k] = WithoutOverrides[k]
        /\ owner.addbacks = WithoutOverrides.addbacks + PreferredTotal(OverriddenOnly)
        /\ owner.sde = WithoutOverrides.sde + PreferredTotal(OverriddenOnly)

\* C23: with addback_account_overrides the addbacks are the sign-preferred total
\* over the rows of the owner period that are flagged or whose account is in the
\* override set, sde is net_profit + addbacks, and revenue, cogs, overhead,
\* other_expense, gross_profit and net_profit are those of the call without
\* overrides.
C23_Overrides ==
    pc = "owner_overrides" =>
        /\ \A k \in OverrideUntouched : owner[k] = WithoutOverrides[k]
        /\ owner.addbacks = PreferredTotal(FlaggedOrOverridden)
        /\ owner.sde = FAdd(owner.net_profit, owner.addbacks)

\* a snapshot whose addbacks come from a flagged row and from an unflagged row of
\* an overridden account
C23_Witness ==
    /\ pc = "owner_overrides"
    /\ Len(OverriddenOnly) > 0
    /\ Len(FlaggedOrOverridden) > Len(OverriddenOnly)
    /\ owner.addbacks > WithoutOverrides.addbacks

\* the first three characters after leading blanks, if they are digits
FirstThreeDigits(account) ==
    LET k == LeadingSpaces(account)
    IN  IF Len(account) >= k + 3 /\ \A i \in 1..3 : account[k + i] \in Digits
        THEN SubSeq(account, k + 1, k + 3) ELSE NoPrefix

\* magnitude of the summed amounts of the rows of df that Mask selects
Magnitude(Mask(_)) ==
    LET rows == SelectSeq(df, Mask)
    IN  net_to_positive(FSum([i \in 1..Len(rows) |-> rows[i].amount]))

\* C24 as stated: both sub-totals are made of legacy-window overhead rows only,
\* split by the classifier's account_prefix.
C24_Original ==
    pc = "owner" =>
        /\ owner.legacy_july_excluded_job_cost =
            Magnitude(LAMBDA r : /\ Legacy(r) /\ r.is_overhead
                                 /\ r.account_prefix \in params.legacy_job_cost_prefixes)
        /\ owner.legacy_july_included_overhead =
            Magnitude(LAMBDA r : /\ Legacy(r) /\ r.is_overhead
                                 /\ r.account_prefix \notin params.legacy_job_cost_prefixes)

\* C24: legacy_july_excluded_job_cost is the magnitude of the summed legacy-window
\* rows flagged is_overhead, is_cogs or is_other_expense whose account starts with
\* three digits that are in the job-cost set; legacy_july_included_overhead is the
\* magnitude of the summed legacy-window overhead rows, less those job-cost rows
\* when the exclusion is enabled.
C24_LegacySubtotals ==
    pc = "owner" =>
        /\ owner.legacy_july_excluded_job_cost =
            Magnitude(LAMBDA r : /\ Legacy(r)
                                 /\ (r.is_overhead \/ r.is_cogs \/ r.is_other_expense)
                                 /\ FirstThreeDigits(r.account) \in params.legacy_job_cost_prefixes)
        /\ owner.legacy_july_included_overhead =
            Magnitude(LAMBDA r : /\ Legacy(r) /\ r.is_overhead
                                 /\ (params.exclude_legacy_july_job_costs =>
                                        FirstThreeDigits(r.account)
                                            \notin params.legacy_job_cost_prefixes))

\* a snapshot whose excluded job cost comes from a legacy-window overhead row that
\* the classifier gave the prefix 7051, next to a legacy-window row that is COGS
C24_Witness ==
    /\ pc = "owner"
    /\ params.exclude_legacy_july_job_costs
    /\ \E i, j \in 1..Len(df) :
        /\ Legacy(df[i]) /\ df[i].is_overhead /\ df[i].account = A_7051Supplies
        /\ FirstThreeDigits(df[i].account) \in params.legacy_job_cost_prefixes
        /\ Legacy(df[j]) /\ df[j].is_cogs /\ df[j].amount = df[i].amount
    /\ owner.legacy_july_excluded_job_cost > 0
    /\ owner.legacy_july_included_overhead = 0

---------------------------------------------------------------------------
(* COGS and Revenue precedence claims *)

ExpenseLike(account_type) ==
    LET atype == Lower(account_type)
    IN  \/ Contains(atype, T_expense)
        \/ Contains(atype, T_cost_of_goods_sold)
        \/ Contains(atype, T_cogs)

\* C25: an expense-like row that is neither Revenue nor other expense is COGS if
\* and only if its account_type contains "cost of goods sold" or "cogs" or its
\* account prefix is in cogs_prefixes, and Overhead otherwise.
C25_Original ==
    pc = "classified_only" =>
        \A i \in 1..Len(df) :
            (ExpenseLike(df[i].account_type) /\ ~df[i].is_revenue /\ ~df[i].is_other_expense)
            => LET says_cogs ==
                    \/ Contains(Lower(df[i].account_type), T_cost_of_goods_sold)
                    \/ Contains(Lower(df[i].account_type), T_cogs)
                    \/ df[i].account_prefix \in cogs_prefixes
               IN  /\ df[i].is_cogs <=> says_cogs
                   /\ df[i].is_overhead <=> ~says_cogs

\* What the code does: "cogs" counts only when it is the whole account_type, blanks
\* aside; "COGS - Labor" without a COGS prefix is Overhead.
C25_WholeCellCogs ==
    pc = "classified_only" =>
        \A i \in 1..Len(df) :
            (ExpenseLike(df[i].account_type) /\ ~df[i].is_revenue /\ ~df[i].is_other_expense)
            => LET says_cogs ==
                    \/ Contains(Lower(df[i].account_type), T_cost_of_goods_sold)
                    \/ Strip(Lower(df[i].account_type)) = T_cogs
                    \/ df[i].account_prefix \in cogs_prefixes
               IN  /\ df[i].is_cogs <=> says_cogs
                   /\ df[i].is_overhead <=> ~says_cogs

---------------------------------------------------------------------------
(* Forecast gross profit claim *)

\* C26: the forecast's gross_profit is recomputed from the combined figures, that
\* is, it equals the forecast's revenue less the forecast's cogs.
C26_Original ==
    pc = "forecast" =>
        forecast.year_1_forecast.gross_profit =
            FSub(forecast.year_1_forecast.revenue, forecast.year_1_forecast.cogs)

\* What the code does: gross_profit is carried forward like every other key.
C26_Additive ==
    pc = "forecast" =>
        \A k \in DOMAIN adjusted :
            forecast.year_1_forecast[k] =
                FAdd(adjusted[k],
                     IF k \in DOMAIN run_rates
                     THEN FlRat(run_rates[k] * forecast.months_remaining, OneMonth)
                     ELSE 0)

---------------------------------------------------------------------------
(* Monthly rollup against period metrics *)

SnapshotKeys ==
    {"revenue", "cogs", "overhead", "other_expense", "gross_profit", "net_profit",
     "addbacks", "sde"}

\* the rows of month m, without the revenue rows dated before owner_revenue_start
MonthRows(m) ==
    SelectSeq(df, LAMBDA r : /\ Month(r.date) = m
                             /\ ~(r.is_revenue /\ r.date < params.owner_revenue_start))

\* C27: every row of the monthly table equals the snapshot get_period_metrics
\* gives for the rows of that month on revenue, cogs, overhead, other_expense,
\* gross_profit, net_profit, addbacks and sde.
C27_Original ==
    pc = "monthly" =>
        \A k \in 1..Len(monthly) :
            \A key \in SnapshotKeys :
                monthly[k][key] = get_period_metrics(MonthRows(monthly[k].month))[key]

\* Where the two agree whatever the rows: revenue, cogs, overhead and gross_profit.
C27_SharedBuckets ==
    pc = "monthly" =>
        \A k \in 1..Len(monthly) :
            \A key \in {"revenue", "cogs", "overhead", "gross_profit"} :
                monthly[k][key] = get_period_metrics(MonthRows(monthly[k].month))[key]

\* Where they part: a month whose flagged rows have both signs, and a month with
\* a row of classification "Other" that carries no flag.
C27_Parted ==
    /\ pc = "monthly"
    /\ \E k \in 1..Len(monthly) :
        LET p == get_period_metrics(MonthRows(monthly[k].month))
        IN  \/ monthly[k].addbacks > p.addbacks /\ p.addbacks > 0
            \/ monthly[k].other_expense > 0 /\ p.other_expense = 0

---------------------------------------------------------------------------
(* Legacy overhead add-in claim *)

\* magnitude of the summed amounts of the overhead rows of the window whose
\* account is in accounts
SelectedOverhead(accounts) ==
    LET rows == SelectSeq(df, LAMBDA r : /\ r.is_overhead
                                         /\ r.date >= params.legacy_start
                                         /\ r.date <= params.legacy_end
                                         /\ r.account \in accounts)
    IN  net_to_positive(FSum([i \in 1..Len(rows) |-> rows[i].amount]))

\* C28: compute_legacy_overhead_addins returns the magnitude of the summed
\* amounts of exactly the overhead rows of [legacy_start, legacy_end] whose
\* account is in included_accounts, for every set, the empty one included.
C28_Original ==
    pc = "addins_computed" => legacy_addins_total = SelectedOverhead(params.included_accounts)

\* What the code does: an empty included_accounts selects every account.
C28_EmptySelectsAll ==
    pc = "addins_computed" =>
        legacy_addins_total =
            SelectedOverhead(IF params.included_accounts = {} THEN Accounts
                             ELSE params.included_accounts)

---------------------------------------------------------------------------
(* Reconciliation maximality claim *)

\* C29: when match_qb_and_bank returns, no unmatched ledger row and unmatched
\* bank row have equal 2-decimal rounded amounts and dates within
\* date_tolerance_days of each other.
C29_Maximal ==
    pc = "matched" =>
        \A u \in 1..Len(match_result.unmatched_qb) :
        \A v \in 1..Len(match_result.unmatched_bank) :
            LET i == match_result.unmatched_qb[u]
                j == match_result.unmatched_bank[v]
            IN  ~ ( /\ Round2(qb[i].amount) = Round2(bank[j].amount)
                    /\ Abs(bank[j].date - qb[i].date) <= date_tolerance_days )

\* the run paired some rows and left a ledger row and a bank row of one rounded
\* amount unmatched, one day outside each other's window; another unmatched
\* ledger row lost its only bank row to an earlier ledger row
C29_Witness ==
    /\ pc = "matched"
    /\ match_result.matched # <<>>
    /\ \E u \in 1..Len(match_result.unmatched_qb) :
       \E v \in 1..Len(match_result.unmatched_bank) :
        LET i == match_result.unmatched_qb[u]
            j == match_result.unmatched_bank[v]
        IN  /\ Round2(qb[i].amount) = Round2(bank[j].amount)
            /\ Abs(bank[j].date - qb[i].date) = date_tolerance_days + 1
    /\ \E u \in 1..Len(match_result.unmatched_qb) :
       \E k \in 1..Len(match_result.matched) :
        LET i == match_result.unmatched_qb[u]
            j == match_result.matched[k].bank_index
        IN  /\ Round2(qb[i].amount) = Round2(bank[j].amount)
            /\ Abs(bank[j].date - qb[i].date) <= date_tolerance_days

---------------------------------------------------------------------------
(* Revenue precedence claim *)

\* the text "income", written out letter by letter
IncomeWord == <<"i","n","c","o","m","e">>

\* the lower-cased text holds "income" somewhere
MentionsIncome(text) ==
    \E k \in 1..Len(text) :
        /\ k + 5 <= Len(text)
        /\ \A n \in 1..6 : LowerChar(text[k + n - 1]) = IncomeWord[n]

\* C30: in classify_transactions every row whose account_type or account text
\* contains "income" is flagged is_revenue and nothing else, for every
\* cogs_prefixes set; so no row whose account_type contains "other income" is
\* flagged is_other_expense.
C30_RevenueFirst ==
    pc \in {"classified_only", "classified_twice"} =>
        \A i \in 1..Len(df) :
            (MentionsIncome(df[i].account_type) \/ MentionsIncome(df[i].account)) =>
                /\ df[i].is_revenue
                /\ ~df[i].is_cogs
                /\ ~df[i].is_overhead
                /\ ~df[i].is_other_expense
                /\ df[i].classification = "Revenue"

\* a classified ledger with an Expense-typed row of account "Rental Income",
\* which the expense masks select too and which ends as Revenue alone
C30_Witness ==
    /\ pc = "classified_only"
    /\ \E i \in 1..Len(df) :
        /\ df[i].account_type = <<"E","x","p","e","n","s","e">>
        /\ df[i].account = A_RentalIncome
        /\ df[i].is_revenue
        /\ ~df[i].is_overhead /\ ~df[i].is_cogs /\ ~df[i].is_other_expense

====
